---- MODULE Spec2Model ----
(***************************************************************************)
(* State-machine model of the useFormBuilder hook (the entity-record       *)
(* editing engine): reducer state, snapshot queue, per-render registries,  *)
(* and the asynchronous load / setSnapshot / save operations with the      *)
(* values each of them captured from the render it was invoked on.         *)
(*                                                                         *)
(* JavaScript values are encoded as tuples of strings so that any two of   *)
(* them can be compared; objects are functions from keys to such values.   *)
(* Updates issued in one synchronous block are committed together (React   *)
(* 18 batching), then the component re-renders and its effects run.        *)
(***************************************************************************)
EXTENDS Integers, Sequences, FiniteSets, TLC

\* ------------------------------------------------------------------ bounds
MaxLoads == 2
MaxSaves == 2
MaxSaveCalls == 1
MaxRetryCalls == 2
MaxRetryListeners == 1
MaxQueue == 2
MaxAssigns == 1
MaxListeners == 2
MaxViews == 1
MaxValidateCalls == 2

\* ------------------------------------------------------------------ values
Undefined == <<"undefined">>
Null == <<"null">>
Str(s) == <<"str", s>>
Num(s) == <<"num", s>>
Bool(s) == <<"bool", s>>
UiInfo == <<"info", "canUpdate:true", "canDelete:true">>
Today == <<"date", "today">>

UndefinedObj == [k \in {"$undefined"} |-> Undefined]
NullObj == [k \in {"$null"} |-> Null]
EmptyObj == [k \in {} |-> Undefined]

IsNullish(o) == o = UndefinedObj \/ o = NullObj

\* {...a, ...b}; spreading undefined or null contributes nothing
Spread(a, b) ==
  LET aa == IF IsNullish(a) THEN EmptyObj ELSE a
      bb == IF IsNullish(b) THEN EmptyObj ELSE b
  IN [k \in DOMAIN aa \cup DOMAIN bb |-> IF k \in DOMAIN bb THEN bb[k] ELSE aa[k]]

\* obj[key], undefined when the key is absent
Get(o, k) == IF k \in DOMAIN o THEN o[k] ELSE Undefined

SeqToSet(s) == {s[i] : i \in 1..Len(s)}

\* ------------------------------------------------------------------ props
TableName == "Widget"
IdField == "WidgetId"
UiInfoKey == "_ui_info_"

NumericTypes == {"Single", "Int32", "Int64", "Double", "Decimal"}

Field(n, t, nullable, required) ==
  [name |-> n, type |-> t, isNullable |-> nullable, isRequired |-> required,
   displayName |-> n]

NoMetadata == [defined |-> FALSE, tableName |-> "", fields |-> <<>>]
\* the schema the metadata service returns for the table: one required string
WidgetMetadata ==
  [defined |-> TRUE, tableName |-> TableName,
   fields |-> <<Field("Name", "String", FALSE, TRUE)>>]

SnapA == [k \in {IdField, "Name", UiInfoKey} |->
            IF k = IdField THEN Str("1") ELSE IF k = "Name" THEN Str("A") ELSE UiInfo]
SnapB == [k \in {IdField, "Name", UiInfoKey} |->
            IF k = IdField THEN Str("2") ELSE IF k = "Name" THEN Str("B") ELSE UiInfo]

\* ------------------------------------------------------ buffer synthesis
FieldsOfType(metadata, types) ==
  {i \in 1..Len(metadata.fields) : metadata.fields[i].type \in types}

\* reduce((a, b) => ({...a, [b.field]: b.value}), {}): the last entry of a key wins
ReduceFieldValues(fvs) ==
  [k \in {fvs[i].field : i \in 1..Len(fvs)} |->
     fvs[CHOOSE i \in 1..Len(fvs) :
           /\ fvs[i].field = k
           /\ \A j \in 1..Len(fvs) : fvs[j].field = k => j <= i].value]

NumericDefault(f) == IF f.isNullable THEN Str("") ELSE Num("0")
StringDefault(f) == Str("")
BooleanDefault(f) == Bool("false")
DateDefault(f) == IF f.isNullable THEN Null ELSE Today
\* props.defaults?.find((x) => x.field === field.name)?.value ?? null
LookupDefault(f, defaults) ==
  LET hits == {i \in 1..Len(defaults) : defaults[i].field = f.name}
      first == CHOOSE i \in hits : \A j \in hits : i <= j
  IN IF hits = {} \/ defaults[first].value \in {Undefined, Null}
     THEN Null ELSE defaults[first].value

DefaultOf(kind, f, defaults) ==
  CASE kind = "numeric" -> NumericDefault(f)
    [] kind = "string" -> StringDefault(f)
    [] kind = "boolean" -> BooleanDefault(f)
    [] kind = "date" -> DateDefault(f)
    [] kind = "lookup" -> LookupDefault(f, defaults)

\* filter(type).map(field => ({field, value})).reduce(...): the last field of a name wins
DefaultsFor(metadata, types, kind, defaults) ==
  LET idx == FieldsOfType(metadata, types)
  IN [k \in {metadata.fields[i].name : i \in idx} |->
        DefaultOf(kind,
                  metadata.fields[CHOOSE i \in idx :
                     /\ metadata.fields[i].name = k
                     /\ \A j \in idx : metadata.fields[j].name = k => j <= i],
                  defaults)]

getClearedValues(metadata, defaults) ==
  LET numericDefaults == DefaultsFor(metadata, NumericTypes, "numeric", defaults)
      stringDefaults == DefaultsFor(metadata, {"String", "Guid"}, "string", defaults)
      booleanDefaults == DefaultsFor(metadata, {"Boolean"}, "boolean", defaults)
      dateDefaults == DefaultsFor(metadata, {"DateTime"}, "date", defaults)
      nullableLookupDefaults == DefaultsFor(metadata, {"Lookup"}, "lookup", defaults)
  IN Spread(Spread(Spread(Spread(Spread(numericDefaults, stringDefaults),
                                 booleanDefaults), dateDefaults),
                   nullableLookupDefaults),
            [k \in {UiInfoKey} |-> UiInfo])

\* getInitialData without the null test of line 194
getInitialDataKeepingNulls(metadata, snapshot, defaults) ==
  IF ~metadata.defined THEN UndefinedObj
  ELSE IF snapshot = UndefinedObj
    THEN Spread(getClearedValues(metadata, defaults), ReduceFieldValues(defaults))
  ELSE IF snapshot # NullObj
    THEN LET names == {metadata.fields[i].name : i \in 1..Len(metadata.fields)}
             keep == {k \in DOMAIN snapshot :
                        k \in names \/ k = UiInfoKey \/ k = IdField}
             dataToUpdate == [k \in keep |-> snapshot[k]]
         IN Spread(getClearedValues(metadata, defaults), dataToUpdate)
  ELSE UndefinedObj

getInitialData(metadata, snapshot, defaults) ==
  IF ~metadata.defined THEN UndefinedObj
  ELSE IF snapshot = UndefinedObj
    THEN Spread(getClearedValues(metadata, defaults), ReduceFieldValues(defaults))
  ELSE IF snapshot # NullObj
    THEN LET names == {metadata.fields[i].name : i \in 1..Len(metadata.fields)}
             keep == {k \in DOMAIN snapshot :
                        /\ snapshot[k] # Null
                        /\ (k \in names \/ k = UiInfoKey \/ k = IdField)}
             dataToUpdate == [k \in keep |-> snapshot[k]]
         IN Spread(getClearedValues(metadata, defaults), dataToUpdate)
  ELSE UndefinedObj

\* ---------------------------------------------------------------- validator
ValidGuids == {Str("6f9619ff-8b86-d011-b42d-00c04fc964ff")}

Message(f, text) == [field |-> f.name, message |-> text]

NumberMessages(f, v) ==
  IF f.type \in NumericTypes /\ v \in {Str("-"), Str(".")}
  THEN <<Message(f, "\"" \o v[2] \o "\" is not a valid number")>> ELSE <<>>

LookupDateMessages(f, v, requiredFields) ==
  IF /\ f.type \in {"Lookup", "DateTime"}
     /\ (f.isNullable = FALSE \/ f.isRequired \/ f.name \in SeqToSet(requiredFields))
     /\ v \in {Undefined, Null}
  THEN <<Message(f, f.displayName \o " is required")>> ELSE <<>>

\* the required rule, skipped for a field the Lookup/DateTime rule already reported
RequiredMessagesOnce(f, v, requiredFields) ==
  IF /\ (f.isRequired = TRUE \/ f.name \in SeqToSet(requiredFields))
     /\ v \in {Undefined, Null, Str("")}
     /\ LookupDateMessages(f, v, requiredFields) = <<>>
  THEN <<Message(f, f.displayName \o " is required")>> ELSE <<>>

RequiredMessages(f, v, requiredFields) ==
  IF /\ (f.isRequired = TRUE \/ f.name \in SeqToSet(requiredFields))
     /\ v \in {Undefined, Null, Str("")}
  THEN <<Message(f, f.displayName \o " is required")>> ELSE <<>>

GuidMessages(f, v) ==
  IF f.type = "Guid" /\ v # Str("") /\ v \notin ValidGuids
  THEN <<Message(f, f.displayName \o " is not a valid Id")>> ELSE <<>>

FieldMessages(f, v, requiredFields) ==
  IF f.name \in {"CreatedById", "UpdatedById"} THEN <<>>
  ELSE NumberMessages(f, v) \o LookupDateMessages(f, v, requiredFields)
         \o RequiredMessages(f, v, requiredFields) \o GuidMessages(f, v)

RECURSIVE MessagesFrom(_, _, _, _)
MessagesFrom(fields, data, requiredFields, i) ==
  IF i > Len(fields) THEN <<>>
  ELSE FieldMessages(fields[i], Get(data, fields[i].name), requiredFields)
         \o MessagesFrom(fields, data, requiredFields, i + 1)

\* the messages one onValidate pass collects from the state it closes over
ValidationMessagesOf(st, requiredFields) ==
  MessagesFrom(st.metadata.fields, st.data, requiredFields, 1)
\* ------------------------------------------------------------ reducer state
InitState ==
  [type |-> "INIT", metadata |-> NoMetadata, snapshot |-> UndefinedObj,
   data |-> UndefinedObj, dirtyFields |-> <<>>, validationMessages |-> <<>>,
   canRead |-> [canRead |-> TRUE, message |-> ""]]

\* the lifecycle phase a reducer state is in
Phase(st) ==
  CASE st.type = "INIT" -> "UNINITIALIZED"
    [] st.type = "START_INITIAL_LOAD" -> "LOADING"
    [] st.type \in {"INITIAL_LOAD_COMPLETE", "SET_DATA_TO_EDIT", "SUBMIT_COMPLETE"} -> "READY"
    [] st.type = "SET_IS_LOADING" -> "SUBMITTING"
    [] st.type = "SUBMIT_CANCELLED" -> "SUBMIT_CANCELLED"

AddDirty(dirty, f) == IF f \in SeqToSet(dirty) THEN dirty ELSE Append(dirty, f)

\* formbuilderReducer: (state, action) -> state
Reduce(st, a) ==
  CASE a.type = "START_INITIAL_LOAD" ->
         [st EXCEPT !.type = a.type, !.data = a.data, !.dirtyFields = <<>>,
                    !.validationMessages = <<>>]
    [] a.type = "INITIAL_LOAD_COMPLETE" ->
         [st EXCEPT !.type = a.type, !.metadata = a.metadata, !.snapshot = a.snapshot,
                    !.data = a.data, !.canRead = a.canRead, !.dirtyFields = <<>>,
                    !.validationMessages = <<>>]
    [] a.type = "SET_DATA_TO_EDIT" ->
         [st EXCEPT !.type = a.type, !.snapshot = a.snapshot, !.data = a.data,
                    !.dirtyFields = <<>>, !.validationMessages = <<>>]
    [] a.type = "SET_FIELD_VALUE" ->
         [st EXCEPT !.data = Spread(@, [k \in {a.field} |-> a.value]),
                    !.dirtyFields = AddDirty(@, a.field)]
    [] a.type = "SET_VALIDATION_MESSAGES" ->
         [st EXCEPT !.validationMessages = a.messages]
    [] a.type \in {"SET_IS_LOADING", "SUBMIT_CANCELLED", "SUBMIT_COMPLETE"} ->
         [st EXCEPT !.type = a.type]

\* ------------------------------------------------------------------- state
VARIABLES
  props,            \* the hook's props, fixed for the life of the component, and
                    \* `table`: the schema the metadata service holds for props.tableName
  state,            \* useReducer state
  snapshotQueue,    \* useState array of snapshots waiting for the schema
  queueId,          \* identity of the array object snapshotQueue refers to
  childDataTables,  \* the current render's dependent-view array
  eventListeners,   \* the current render's listener array
  requiredFields,   \* the current render's required-field array
  loads,            \* onLoad invocations, each with what its closure captured
  saves,            \* onSave invocations, each with what its closure captured
  saveCalls,        \* number of save() and saveSilent() calls made so far
  assigns,          \* setSnapshot invocations waiting on getInitialData
  registered,       \* history: every on() call made on this container, in order
  registeredViews,  \* history: the latest addDataTable call of every view id
  validated,        \* history: the number of validate() calls and what the last returned
  requiredEver      \* history: every field passed to addRequiredField

vars == <<props, state, snapshotQueue, queueId, childDataTables, eventListeners,
          requiredFields, loads, saves, saveCalls, assigns, registered, registeredViews,
          validated, requiredEver>>

\* one recorded call of an external collaborator or of a dispatch
Ev(ev, who, op, id, data, params) ==
  [ev |-> ev, who |-> who, op |-> op, id |-> id, data |-> data, params |-> params]
E2(ev, who) == Ev(ev, who, "", Undefined, EmptyObj, EmptyObj)

NoResp == [succeeded |-> FALSE, data |-> UndefinedObj]
NoHooks == [preValidate |-> FALSE, preSaveEvent |-> FALSE, postSaveEvent |-> FALSE]

IdleSave ==
  [pc |-> "idle", cstate |-> InitState, live |-> FALSE, els |-> <<>>, cdt |-> <<>>,
   req |-> <<>>, hooks |-> NoHooks, parameters |-> EmptyObj, li |-> 0,
   resp |-> NoResp, seen |-> 0, views |-> <<>>, required |-> {}, others |-> {},
   tr |-> <<>>]

IdleLoad ==
  [pc |-> "idle", id |-> Undefined, refresh |-> FALSE, refreshDatatables |-> FALSE,
   cstate |-> InitState, live |-> FALSE, cdt |-> <<>>, q |-> <<>>, qid |-> 0,
   snapshot |-> UndefinedObj, missingRecord |-> FALSE, views |-> <<>>, latest |-> <<>>, tr |-> <<>>]

InitWith(P) ==
  /\ props \in P
  /\ state = InitState
  /\ snapshotQueue = <<>>
  /\ queueId = 0
  /\ childDataTables = <<>>
  /\ eventListeners = <<>>
  /\ requiredFields = <<>>
  /\ loads = [i \in 1..MaxLoads |-> IdleLoad]
  /\ saves = [i \in 1..MaxSaves |-> IdleSave]
  /\ saveCalls = 0
  /\ assigns = <<>>
  /\ registered = <<>>
  /\ registeredViews = <<>>
  /\ validated = [calls |-> 0, result |-> TRUE]
  /\ requiredEver = {}

\* ------------------------------------------------------- render and effects
\* what a closure sees of the registry arrays of the render it belongs to
Els(op) == IF op.live THEN eventListeners ELSE op.els
Cdt(op) == IF op.live THEN childDataTables ELSE op.cdt
Req(op) == IF op.live THEN requiredFields ELSE op.req

Front(q) == SubSeq(q, 1, Len(q) - 1)
Last(q) == q[Len(q)]

\* Array.prototype.pop on the array object `id`: every closure holding it sees it
PopShared(ld, id) ==
  [i \in DOMAIN ld |->
     IF ld[i].pc \in {"metadata", "read", "perms"} /\ ld[i].qid = id /\ Len(ld[i].q) > 0
     THEN [ld[i] EXCEPT !.q = Front(@)] ELSE ld[i]]

Assign(snapshot, metadata, src) ==
  [snapshot |-> snapshot, metadata |-> metadata, src |-> src]

\* the effect on [state.type, snapshotQueue] (drain of the snapshot queue)
QueueEffect(st, q, qid, ld, as) ==
  IF Len(q) > 0 /\ st.type = "INITIAL_LOAD_COMPLETE"
  THEN [q |-> <<>>, qid |-> qid + 1, ld |-> PopShared(ld, qid),
        as |-> IF st.metadata.defined
               THEN Append(as, Assign(Last(q), st.metadata, "effect")) ELSE as]
  ELSE [q |-> q, qid |-> qid, ld |-> ld, as |-> as]

\* a re-render leaves the closures of earlier renders with the arrays they had
StaleSaves(sv) ==
  [i \in DOMAIN sv |->
     IF sv[i].live
     THEN [sv[i] EXCEPT !.live = FALSE, !.els = eventListeners,
                        !.cdt = childDataTables, !.req = requiredFields]
     ELSE sv[i]]
StaleLoads(ld) ==
  [i \in DOMAIN ld |->
     IF ld[i].live THEN [ld[i] EXCEPT !.live = FALSE, !.cdt = childDataTables]
     ELSE ld[i]]

\* commit of the updates of one synchronous block, re-render, effects
Commit(st, q, qid, sv, ld, as) ==
  LET e == QueueEffect(st, q, qid, ld, as)
  IN /\ state' = st
     /\ snapshotQueue' = e.q
     /\ queueId' = e.qid
     /\ loads' = StaleLoads(e.ld)
     /\ saves' = StaleSaves(sv)
     /\ assigns' = e.as
     /\ childDataTables' = <<>>
     /\ eventListeners' = <<>>
     /\ requiredFields' = <<>>
     /\ UNCHANGED <<props, requiredEver, registered, registeredViews>>

\* the same, for every operation but save()
CommitOther(st, q, qid, sv, ld, as) ==
  Commit(st, q, qid, sv, ld, as) /\ UNCHANGED <<saveCalls, validated>>

\* ------------------------------------------------------------- registries
EventNames == {"PRE_SAVE", "POST_SAVE"}
Callbacks == {"L1", "L2"}
ViewIds == {ToString(i) : i \in 1..MaxViews}
Capabilities == {"r1", "r2"}

on(eventName, callback) ==
  /\ Len(registered) < MaxListeners
  /\ eventListeners' = Append(eventListeners, [eventName |-> eventName, callback |-> callback])
  /\ registered' = Append(registered, [eventName |-> eventName, callback |-> callback])
  /\ UNCHANGED <<props, requiredEver, validated, state, snapshotQueue, queueId, childDataTables, requiredFields,
                 loads, saves, saveCalls, assigns, registeredViews>>

addDataTable(dataTableId, refresh) ==
  LET Other(x) == x.dataTableId # dataTableId
  IN /\ childDataTables' =
          Append(SelectSeq(childDataTables, Other),
                 [dataTableId |-> dataTableId, refresh |-> refresh])
     /\ registeredViews' =
          Append(SelectSeq(registeredViews, Other),
                 [dataTableId |-> dataTableId, refresh |-> refresh])
     /\ UNCHANGED <<props, requiredEver, validated, state, snapshotQueue, queueId, eventListeners, requiredFields,
                    loads, saves, saveCalls, assigns, registered>>

\* addRequiredField: lines 343-348, on the current render's array
addRequiredField(fieldName) ==
  /\ requiredFields' = IF fieldName \in SeqToSet(requiredFields) THEN requiredFields
                        ELSE Append(requiredFields, fieldName)
  /\ requiredEver' = requiredEver \cup {fieldName}
  /\ UNCHANGED <<props, validated, state, snapshotQueue, queueId, childDataTables,
                 eventListeners, loads, saves, saveCalls, assigns, registered,
                 registeredViews>>

\* reloadDataTables: the refresh calls made, in order, on a dependent-view array
RefreshCalls(cdt) ==
  [i \in 1..Len(cdt) |-> Ev("refresh", cdt[i].refresh, cdt[i].dataTableId, Undefined, EmptyObj, EmptyObj)]

\* -------------------------------------------------------------- setField
FieldValues == {Str(""), Str("W")}

\* a dispatch that sends "" for a value that is null or undefined
SetFieldValueOrEmpty(st, field, value) ==
  Reduce(st, [type |-> "SET_FIELD_VALUE", field |-> field,
              value |-> IF value \in {Undefined, Null} THEN Str("") ELSE value])

\* the dispatch of lines 312-318
SetFieldValue(st, field, value) ==
  Reduce(st, [type |-> "SET_FIELD_VALUE", field |-> field, value |-> value])

setField(field, value) ==
  CommitOther(SetFieldValue(state, field, value), snapshotQueue, queueId, saves, loads, assigns)

\* isDirty(field?): lines 321-326, field a string value, undefined or null
isDirty(st, field) ==
  IF field \in {Undefined, Null} THEN Len(st.dirtyFields) > 0
  ELSE field[2] \in SeqToSet(st.dirtyFields)

\* the operation kind handed to consumers: lines 672-674
operation(p, st) ==
  IF ~IsNullish(p.snapshot) \/ ~IsNullish(st.snapshot) THEN "UPDATE" ELSE "CREATE"

\* ------------------------------------------------------------------ onLoad
\* operations are kept in slots: a load slot is used once, a save slot is free
\* again once the save in it has returned; `views` and `latest` of a load are
\* histories: the views registered on the container when the load was called
\* and when it ended
InFlight(op) == op.pc \notin {"idle", "aborted", "done", "returned", "invalid", "cancelled"}
Lowest(S) == CHOOSE i \in S : \A j \in S : i <= j
FreeLoads == {i \in DOMAIN loads : loads[i].pc = "idle"}
FreeSaves == {i \in DOMAIN saves : ~InFlight(saves[i])}

Mounted == loads[1].pc # "idle"

\* lines 77-100: the synchronous start of onLoad, up to the metadata request
LoadStarted(id, refresh, refreshDatatables) ==
  [IdleLoad EXCEPT !.pc = "metadata", !.id = id, !.refresh = refresh,
                   !.refreshDatatables = refreshDatatables, !.cstate = state,
                   !.live = TRUE, !.q = snapshotQueue, !.qid = queueId,
                   !.views = registeredViews]

StartInitialLoad(st) ==
  Reduce(st, [type |-> "START_INITIAL_LOAD",
              data |-> IF st.metadata.defined
                       THEN getInitialData(st.metadata, UndefinedObj, props.defaults)
                       ELSE UndefinedObj])

\* the mount effects: onLoad for [tableName, id], setSnapshot for [props.snapshot]
Mount ==
  /\ ~Mounted
  /\ CommitOther(StartInitialLoad(state),
            IF state.snapshot # props.snapshot /\ ~IsNullish(props.snapshot)
            THEN Append(snapshotQueue, props.snapshot) ELSE snapshotQueue,
            IF state.snapshot # props.snapshot /\ ~IsNullish(props.snapshot)
            THEN queueId + 1 ELSE queueId,
            saves,
            [loads EXCEPT ![1] = LoadStarted(props.id, FALSE, FALSE)],
            assigns)

\* load(id): loadRecord -> onLoad({id, refresh: false, refreshDatatables: true})
load(id) ==
  /\ Mounted
  /\ FreeLoads # {}
  /\ CommitOther(StartInitialLoad(state), snapshotQueue, queueId, saves,
            [loads EXCEPT ![Lowest(FreeLoads)] = LoadStarted(id, FALSE, TRUE)], assigns)

\* (variant: a refresh load dispatches START_INITIAL_LOAD like any other load)
reloadShowingLoading(refreshDatatables) ==
  /\ Mounted
  /\ ~IsNullish(state.snapshot)
  /\ FreeLoads # {}
  /\ CommitOther(StartInitialLoad(state), snapshotQueue, queueId, saves,
                 [loads EXCEPT ![Lowest(FreeLoads)] =
                    LoadStarted(Get(state.snapshot, IdField), TRUE, refreshDatatables)],
                 assigns)

\* reload(reloadDataTables): lines 677-682, a refresh load of the record held
reload(refreshDatatables) ==
  /\ Mounted
  /\ ~IsNullish(state.snapshot)
  /\ FreeLoads # {}
  /\ loads' = [loads EXCEPT ![Lowest(FreeLoads)] =
                 LoadStarted(Get(state.snapshot, IdField), TRUE, refreshDatatables)]
  /\ UNCHANGED <<props, requiredEver, validated, state, snapshotQueue, queueId, childDataTables,
                 eventListeners, requiredFields, saves, saveCalls, assigns, registered,
                 registeredViews>>

DoneLoad(op, pc, tr) ==
  [IdleLoad EXCEPT !.pc = pc, !.id = op.id, !.refresh = op.refresh,
                   !.refreshDatatables = op.refreshDatatables, !.views = op.views,
                   !.latest = registeredViews, !.tr = tr]

NeedsRead(op) ==
  (IsNullish(props.snapshot) /\ op.id \notin {Undefined, Null}) \/ op.refresh

\* authRequest.metadata returns (or throws: the load ends there)
LoadMetadataReturn(i, ok) ==
  /\ loads[i].pc = "metadata"
  /\ loads' = [loads EXCEPT ![i] =
       IF ~ok THEN DoneLoad(loads[i], "aborted", loads[i].tr)
       ELSE IF NeedsRead(loads[i])
         THEN [loads[i] EXCEPT !.pc = "read", !.tr = Append(@, E2("read", "Data"))]
       ELSE [loads[i] EXCEPT !.pc = "perms", !.snapshot = props.snapshot]]
  /\ UNCHANGED <<props, requiredEver, validated, state, snapshotQueue, queueId, childDataTables, eventListeners,
                 requiredFields, saves, saveCalls, assigns, registered, registeredViews>>

ReadResults == {"failed", "empty", "row"}
Rows == {SnapA, SnapB}

\* authRequest.read returns: lines 116-125
LoadReadReturn(i, result, row) ==
  /\ loads[i].pc = "read"
  /\ loads' = [loads EXCEPT ![i] =
       CASE result = "failed" -> DoneLoad(loads[i], "aborted", loads[i].tr)
         [] result = "empty" -> [loads[i] EXCEPT !.pc = "perms", !.missingRecord = TRUE,
                                                  !.snapshot = props.snapshot]
         [] result = "row" -> [loads[i] EXCEPT !.pc = "perms", !.snapshot = row]]
  /\ UNCHANGED <<props, requiredEver, validated, state, snapshotQueue, queueId, childDataTables, eventListeners,
                 requiredFields, saves, saveCalls, assigns, registered, registeredViews>>

MissingMessage ==
  "This record doesn't exist or you are missing the required permissions to access "
     \o TableName

InitialLoadComplete(st, op) ==
  Reduce(st, [type |-> "INITIAL_LOAD_COMPLETE", metadata |-> props.table,
              snapshot |-> op.snapshot,
              data |-> getInitialData(props.table, op.snapshot, props.defaults),
              canRead |-> [canRead |-> ~op.missingRecord,
                           message |-> IF op.missingRecord THEN MissingMessage ELSE ""]])

\* lines 171-174 evaluated in the load's closure: its snapshotQueue array, its
\* setSnapshot and the state.metadata of the render the load was invoked on. With
\* no schema in that render setSnapshot re-appends the snapshot, and the
\* setSnapshotQueue([]) of line 173 then empties the queue in the same batch.
LoadDrain(op, ld) ==
  [q |-> <<>>, qid |-> queueId + 1, ld |-> PopShared(ld, op.qid),
   as |-> IF op.cstate.metadata.defined
          THEN Append(assigns, Assign(Last(op.q), op.cstate.metadata, "load"))
          ELSE assigns]

\* permissions resolved: lines 137-175, the end of onLoad
LoadPermsReturn(i) ==
  /\ loads[i].pc = "perms"
  /\ LET op == loads[i]
         tr == IF op.refreshDatatables THEN op.tr \o RefreshCalls(Cdt(op)) ELSE op.tr
         st == InitialLoadComplete(state, op)
         complete == Append(tr, E2("dispatch", "INITIAL_LOAD_COMPLETE"))
         drained == Append(complete,
                           Ev("setSnapshot",
                              IF op.cstate.metadata.defined THEN "assign" ELSE "queue",
                              "", Undefined, Last(op.q), EmptyObj))
     IN IF Len(op.q) > 0
        THEN LET d == LoadDrain(op, loads)
             IN CommitOther(st, d.q, d.qid, saves,
                            [d.ld EXCEPT ![i] = DoneLoad(op, "done", drained)], d.as)
        ELSE CommitOther(st, snapshotQueue, queueId, saves,
                         [loads EXCEPT ![i] = DoneLoad(op, "done", complete)], assigns)

\* ------------------------------------------------------------- setSnapshot
SnapshotArgs == {SnapA, SnapB}

\* lines 290-306, up to the await of getInitialData
setSnapshot(snapshot) ==
  /\ Mounted
  /\ IF state.metadata.defined
     THEN /\ Len(assigns) < MaxAssigns
          /\ assigns' = Append(assigns, Assign(snapshot, state.metadata, "call"))
          /\ UNCHANGED <<props, requiredEver, validated, state, snapshotQueue, queueId, childDataTables,
                         eventListeners, requiredFields, loads, saves, saveCalls,
                         registered, registeredViews>>
     ELSE /\ Len(snapshotQueue) < MaxQueue
          /\ CommitOther(state, Append(snapshotQueue, snapshot), queueId + 1, saves, loads, assigns)

RemoveAt(s, k) == SubSeq(s, 1, k - 1) \o SubSeq(s, k + 1, Len(s))

SetDataToEdit(st, a) ==
  Reduce(st, [type |-> "SET_DATA_TO_EDIT", snapshot |-> a.snapshot,
              data |-> getInitialData(a.metadata, a.snapshot, props.defaults)])

\* getInitialData resolved: the dispatch of lines 293-301
SetSnapshotComplete(k) ==
  /\ k \in 1..Len(assigns)
  /\ CommitOther(SetDataToEdit(state, assigns[k]), snapshotQueue, queueId, saves, loads,
            RemoveAt(assigns, k))

\* ---------------------------------------------------------------- validate
\* validate(): onValidate on the current render, lines 518-586
validate ==
  /\ Mounted
  /\ validated.calls < MaxValidateCalls
  /\ LET messages == ValidationMessagesOf(state, requiredFields)
     IN IF Len(messages) > 0
        THEN /\ Commit(Reduce(state, [type |-> "SET_VALIDATION_MESSAGES", messages |-> messages]),
                       snapshotQueue, queueId, saves, loads, assigns)
             /\ validated' = [calls |-> validated.calls + 1, result |-> FALSE]
             /\ UNCHANGED saveCalls
        ELSE /\ validated' = [calls |-> validated.calls + 1, result |-> TRUE]
             /\ UNCHANGED <<props, requiredEver, state, snapshotQueue, queueId, childDataTables,
                            eventListeners, requiredFields, loads, saves, saveCalls, assigns,
                            registered, registeredViews>>

\* ------------------------------------------------------------------ onSave
HookResults(name) ==
  {[continue |-> FALSE, parameters |-> UndefinedObj],
   [continue |-> TRUE, parameters |-> [k \in {"last", name} |-> Str(name)]]}

Responses(fields) ==
  {[succeeded |-> FALSE, data |-> UndefinedObj],
   [succeeded |-> TRUE,
    data |-> Spread(fields, [k \in {IdField} |->
                               IF Get(fields, IdField) = Undefined THEN Str("9")
                               ELSE fields[IdField]])]}

\* (variant: the payload is read from the state of the latest render)
SubmissionDataOfLatest(s) == Spread(EmptyObj, state.data)

\* const submissionData = {...state.data}, of the render save was invoked on
SubmissionData(s) == Spread(EmptyObj, s.cstate.data)

\* a save that has returned keeps only the record of what it did
Returned(s, pc, tr) ==
  [IdleSave EXCEPT !.pc = pc, !.hooks = s.hooks, !.tr = tr, !.els = Els(s), !.cdt = Cdt(s),
                   !.seen = s.seen, !.views = s.views, !.required = s.required,
                   !.others = s.others]

\* what a hook, a listener or the persistence request resolved with
Outcome(who, result) ==
  Ev("return", who, IF result.continue = FALSE THEN "cancel" ELSE "continue", Undefined,
     EmptyObj, result.parameters)
ListenerOutcome(s, result) ==
  Ev("return", Els(s)[s.li].callback, IF result = FALSE THEN "cancel" ELSE "continue",
     Undefined, EmptyObj, EmptyObj)
Response(resp) ==
  Ev("response", "execute", IF resp.succeeded THEN "succeeded" ELSE "failed",
     Get(resp.data, IdField), resp.data, EmptyObj)
Resolved(s, e) == [s EXCEPT !.tr = Append(@, e)]

Step(s, st, dispatched) == [s |-> s, st |-> st, dispatched |-> dispatched]
Traced(s, pc, e) == [s EXCEPT !.pc = pc, !.tr = Append(@, e)]

\* (variant: the snapshot is looked up in the state of the latest render)
PersistKindOfLatest(s) == IF state.snapshot = UndefinedObj THEN "create" ELSE "update"

\* state.snapshot === undefined ? API_DATA_CREATE : API_DATA_UPDATE
PersistKind(s) == IF s.cstate.snapshot = UndefinedObj THEN "create" ELSE "update"
OperationName(s) == IF s.cstate.snapshot = UndefinedObj THEN "CREATE" ELSE "UPDATE"

\* lines 443-452: the persistence request
ToPersist(s, st, dispatched) ==
  Step(Traced(s, "persist",
              Ev("persist", PersistKind(s), s.cstate.metadata.tableName, Undefined,
                 SubmissionData(s), s.parameters)),
       st, dispatched)

\* lines 427-440: the call-site preSaveEvent
ToPreSaveEvent(s, st, dispatched) ==
  IF s.hooks.preSaveEvent
  THEN Step(Traced(s, "preSaveEvent", E2("hook", "preSaveEvent")), st, dispatched)
  ELSE ToPersist(s, st, dispatched)

NextListener(els, eventName, from) ==
  LET idx == {j \in from..Len(els) : els[j].eventName = eventName}
  IN IF idx = {} THEN 0 ELSE CHOOSE j \in idx : \A k \in idx : j <= k

\* lines 415-425: the PRE_SAVE listeners from index `from` on
ToListeners(s, st, dispatched, from) ==
  LET j == NextListener(Els(s), "PRE_SAVE", from)
  IN IF j # 0
     THEN Step([Traced(s, "listener", Ev("PRE_SAVE", Els(s)[j].callback, "",
                                          Undefined, EmptyObj, EmptyObj))
                  EXCEPT !.li = j],
               st, dispatched)
     ELSE ToPreSaveEvent(s, st, dispatched)

\* lines 389-403: the instance-level onPreSave
ToOnPreSave(s, st, dispatched) ==
  IF props.onPreSave
  THEN Step(Traced(s, "onPreSave", E2("hook", "onPreSave")), st, dispatched)
  ELSE ToListeners(s, st, dispatched, 1)

\* (variant: the verdict of onValidate is not looked at)
ToValidateUnheeded(s, st) ==
  LET v == [s EXCEPT !.tr = Append(@, E2("validate", "onValidate"))]
  IN ToOnPreSave([v EXCEPT !.tr = Append(@, E2("dispatch", "SET_IS_LOADING"))],
                 Reduce(st, [type |-> "SET_IS_LOADING"]), TRUE)

\* lines 382-387: onValidate on the closed-over state, then SET_IS_LOADING
ToValidate(s, st) ==
  LET messages == ValidationMessagesOf(s.cstate, Req(s))
      v == [s EXCEPT !.tr = Append(@, E2("validate", "onValidate"))]
  IN IF Len(messages) > 0
     THEN Step(Returned(v, "invalid", v.tr),
               Reduce(st, [type |-> "SET_VALIDATION_MESSAGES", messages |-> messages]),
               TRUE)
     ELSE ToOnPreSave([v EXCEPT !.tr = Append(@, E2("dispatch", "SET_IS_LOADING"))],
                      Reduce(st, [type |-> "SET_IS_LOADING"]), TRUE)

\* (variant: a cancellation also puts the field back to empty)
CancelledAndReset(s, st) ==
  Step(Returned(s, "cancelled", Append(s.tr, E2("dispatch", "SUBMIT_CANCELLED"))),
       Reduce(Reduce(st, [type |-> "SET_FIELD_VALUE", field |-> "Name", value |-> Str("")]),
              [type |-> "SUBMIT_CANCELLED"]),
       TRUE)

\* a cancelling hook or listener: dispatch SUBMIT_CANCELLED and return
Cancelled(s, st) ==
  Step(Returned(s, "cancelled", Append(s.tr, E2("dispatch", "SUBMIT_CANCELLED"))),
       Reduce(st, [type |-> "SUBMIT_CANCELLED"]), TRUE)

MergeParameters(s, result) ==
  [s EXCEPT !.parameters = Spread(@, result.parameters)]

PostArgs(s) ==
  IF s.resp.succeeded
  THEN [op |-> OperationName(s), id |-> Get(s.resp.data, IdField), data |-> s.resp.data]
  ELSE [op |-> "FAILED", id |-> Str(""), data |-> EmptyObj]

PostEv(ev, who, s) ==
  Ev(ev, who, PostArgs(s).op, PostArgs(s).id, PostArgs(s).data, EmptyObj)

PostListenerCalls(s) ==
  LET Post(x) == x.eventName = "POST_SAVE"
      ls == SelectSeq(Els(s), Post)
  IN [i \in 1..Len(ls) |-> PostEv("POST_SAVE", ls[i].callback, s)]

\* lines 463-496: POST_SAVE listeners, postSaveEvent, SUBMIT_COMPLETE, reloadDataTables
ToFinish(s, st) ==
  LET calls == PostListenerCalls(s)
                 \o (IF s.hooks.postSaveEvent THEN <<PostEv("hook", "postSaveEvent", s)>>
                     ELSE <<>>)
                 \o <<E2("dispatch", "SUBMIT_COMPLETE")>>
                 \o RefreshCalls(Cdt(s))
  IN Step(Returned(s, "done", s.tr \o calls),
          Reduce(st, [type |-> "SUBMIT_COMPLETE"]), TRUE)

\* lines 454-462 and 480-482: the awaited instance-level onPostSave
ToOnPostSave(s, st) ==
  IF props.onPostSave
  THEN Step(Traced(s, "onPostSave", PostEv("hook", "onPostSave", s)), st, FALSE)
  ELSE ToFinish(s, st)

\* the state after one synchronous stretch of a save
Apply(i, r) ==
  IF r.dispatched
  THEN /\ Commit(r.st, snapshotQueue, queueId, [saves EXCEPT ![i] = r.s], loads, assigns)
       /\ UNCHANGED validated
  ELSE /\ saves' = [saves EXCEPT ![i] = r.s]
       /\ UNCHANGED <<props, requiredEver, validated, state, snapshotQueue, queueId, childDataTables,
                      eventListeners, requiredFields, loads, assigns, registered,
                      registeredViews>>

\* the saves suspended on their persistence request
Persisting == {j \in DOMAIN saves : saves[j].pc = "persist"}

\* (variant: a save called while another is persisting is turned away)
saveUnlessPersisting(hooks) ==
  /\ Mounted
  /\ FreeSaves # {}
  /\ saveCalls' = saveCalls + 1
  /\ LET i == Lowest(FreeSaves)
         s == [IdleSave EXCEPT !.cstate = state, !.live = TRUE, !.hooks = hooks,
                               !.seen = Len(registered), !.views = registeredViews,
                               !.required = requiredEver, !.others = Persisting]
     IN Apply(i, IF Persisting # {}
                 THEN Step(Returned(s, "returned", <<E2("rejected", "save")>>), state, FALSE)
                 ELSE IF hooks.preValidate
                 THEN Step(Traced(s, "preValidate", E2("hook", "preValidate")), state, FALSE)
                 ELSE ToValidate(s, state))

\* save(preValidate, preSaveEvent, postSaveEvent): lines 360-372
save(hooks) ==
  /\ Mounted
  /\ FreeSaves # {}
  /\ saveCalls' = saveCalls + 1
  /\ LET i == Lowest(FreeSaves)
         s == [IdleSave EXCEPT !.cstate = state, !.live = TRUE, !.hooks = hooks,
                               !.seen = Len(registered), !.views = registeredViews,
                               !.required = requiredEver, !.others = Persisting]
     IN Apply(i, IF hooks.preValidate
                 THEN Step(Traced(s, "preValidate", E2("hook", "preValidate")), state, FALSE)
                 ELSE ToValidate(s, state))

\* (variant: the answer of preValidate is not looked at)
SavePreValidateReturnUnheeded(i, result) ==
  /\ saves[i].pc = "preValidate"
  /\ UNCHANGED saveCalls
  /\ LET s == Resolved(saves[i], Outcome("preValidate", result))
     IN Apply(i, ToValidate(MergeParameters(s, result), state))

\* preValidate resolved: lines 373-381
SavePreValidateReturn(i, result) ==
  /\ saves[i].pc = "preValidate"
  /\ UNCHANGED saveCalls
  /\ LET s == Resolved(saves[i], Outcome("preValidate", result))
     IN Apply(i, IF ~result.continue
                 THEN Step(Returned(s, "returned", s.tr), state, FALSE)
                 ELSE ToValidate(MergeParameters(s, result), state))

\* props.onPreSave resolved: lines 392-403
SaveOnPreSaveReturn(i, result) ==
  /\ saves[i].pc = "onPreSave"
  /\ UNCHANGED saveCalls
  /\ LET s == Resolved(saves[i], Outcome("onPreSave", result))
     IN Apply(i, IF result.continue = FALSE THEN Cancelled(s, state)
                 ELSE ToListeners(MergeParameters(s, result), state, FALSE, 1))

\* (variant: a listener's false does not stop the loop)
SaveListenerReturnUnheeded(i, result) ==
  /\ saves[i].pc = "listener"
  /\ UNCHANGED saveCalls
  /\ LET s == Resolved(saves[i], ListenerOutcome(saves[i], result))
     IN Apply(i, ToListeners(s, state, FALSE, s.li + 1))

\* a PRE_SAVE listener resolved: lines 418-424
SaveListenerReturn(i, result) ==
  /\ saves[i].pc = "listener"
  /\ UNCHANGED saveCalls
  /\ LET s == Resolved(saves[i], ListenerOutcome(saves[i], result))
     IN Apply(i, IF result = FALSE THEN Cancelled(s, state)
                 ELSE ToListeners(s, state, FALSE, s.li + 1))

\* preSaveEvent resolved: lines 429-440
SavePreSaveEventReturn(i, result) ==
  /\ saves[i].pc = "preSaveEvent"
  /\ UNCHANGED saveCalls
  /\ LET s == Resolved(saves[i], Outcome("preSaveEvent", result))
     IN Apply(i, IF result.continue = FALSE THEN Cancelled(s, state)
                 ELSE ToPersist(MergeParameters(s, result), state, FALSE))

\* authRequest.execute resolved: line 455
SavePersistReturn(i, resp) ==
  /\ saves[i].pc = "persist"
  /\ UNCHANGED saveCalls
  /\ Apply(i, ToOnPostSave([Resolved(saves[i], Response(resp)) EXCEPT !.resp = resp], state))

\* props.onPostSave resolved
SaveOnPostSaveReturn(i) ==
  /\ saves[i].pc = "onPostSave"
  /\ UNCHANGED saveCalls
  /\ Apply(i, ToFinish(saves[i], state))

\* ------------------------------------------------------------ onSaveSilent
SilentParameters == {UndefinedObj, [k \in {"silent"} |-> Str("yes")]}

\* the request of lines 499-507, on the state of the current render
SilentRequest(st, parameters) ==
  Ev("persist", IF st.snapshot = UndefinedObj THEN "create" ELSE "update",
     st.metadata.tableName, Undefined, st.data, parameters)

\* (variant: saveSilent shows the submitting state while its request is out)
saveSilentSubmitting(parameters) ==
  /\ Mounted
  /\ FreeSaves # {}
  /\ saveCalls' = saveCalls + 1
  /\ LET i == Lowest(FreeSaves)
         s == [IdleSave EXCEPT !.pc = "silent", !.cstate = state, !.parameters = parameters,
                               !.tr = <<SilentRequest(state, parameters)>>]
     IN /\ Commit(Reduce(state, [type |-> "SET_IS_LOADING"]), snapshotQueue, queueId,
                  [saves EXCEPT ![i] = s], loads, assigns)
        /\ UNCHANGED validated

\* saveSilent(parameters): lines 498-507, up to the await of the request
saveSilent(parameters) ==
  /\ Mounted
  /\ FreeSaves # {}
  /\ saveCalls' = saveCalls + 1
  /\ LET i == Lowest(FreeSaves)
         s == [IdleSave EXCEPT !.pc = "silent", !.cstate = state, !.parameters = parameters,
                               !.tr = <<SilentRequest(state, parameters)>>]
     IN saves' = [saves EXCEPT ![i] = s]
  /\ UNCHANGED <<props, requiredEver, validated, state, snapshotQueue, queueId, childDataTables,
                 eventListeners, requiredFields, loads, assigns, registered, registeredViews>>

\* the request resolved: return resp.data, line 508
SaveSilentReturn(i, resp) ==
  /\ saves[i].pc = "silent"
  /\ saves' = [saves EXCEPT ![i] =
                 [Returned(saves[i], "returned", Append(saves[i].tr, Response(resp)))
                    EXCEPT !.resp = resp]]
  /\ UNCHANGED <<props, requiredEver, validated, state, snapshotQueue, queueId, childDataTables,
                 eventListeners, requiredFields, loads, saveCalls, assigns, registered,
                 registeredViews>>

\* -------------------------------------------------------------------- Next
\* Save sequencing on a container whose mount load resolves the schema: no
\* record id and no caller snapshot; the instance-level hooks are both configured
\* or both absent, and so are the call-site preSaveEvent/postSaveEvent.
SaveProps ==
  {[id |-> Undefined, snapshot |-> UndefinedObj, onPreSave |-> b, onPostSave |-> b,
    defaults |-> <<>>, table |-> WidgetMetadata] : b \in BOOLEAN}
SaveHooks ==
  {[preValidate |-> a, preSaveEvent |-> b, postSaveEvent |-> b] : a, b \in BOOLEAN}

Init == InitWith(SaveProps)

\* a registration can only be observed by an operation that reads the current
\* render's arrays: one still to be invoked, or one not yet re-rendered away
Observed(maxCalls) ==
  \/ saveCalls < maxCalls
  \/ \E i \in DOMAIN saves : saves[i].live

\* callbacks are interchangeable: the first one registered is called L1
Canonical(callback) ==
  callback = "L1" \/ \E j \in 1..Len(eventListeners) : eventListeners[j].callback = "L1"

NoSaveInFlight == \A i \in DOMAIN saves : ~InFlight(saves[i])

Next ==
  \/ Mount
  \/ \E i \in 1..MaxLoads : LoadMetadataReturn(i, TRUE)
  \/ \E i \in 1..MaxLoads : LoadPermsReturn(i)
  \/ \E value \in FieldValues \ {Str("")} : setField("Name", value)
  \/ \E eventName \in EventNames, callback \in Callbacks :
       Observed(MaxSaveCalls) /\ Canonical(callback) /\ on(eventName, callback)
  \/ \E id \in ViewIds : Observed(MaxSaveCalls) /\ addDataTable(id, "r1")
  \/ \E hooks \in SaveHooks : saveCalls < MaxSaveCalls /\ NoSaveInFlight /\ save(hooks)
  \/ \E i \in 1..MaxSaves, result \in HookResults("preValidate") : SavePreValidateReturn(i, result)
  \/ \E i \in 1..MaxSaves, result \in HookResults("onPreSave") : SaveOnPreSaveReturn(i, result)
  \/ \E i \in 1..MaxSaves, result \in BOOLEAN : SaveListenerReturn(i, result)
  \/ \E i \in 1..MaxSaves, result \in HookResults("preSaveEvent") : SavePreSaveEventReturn(i, result)
  \/ \E i \in 1..MaxSaves : \E resp \in Responses(SubmissionData(saves[i])) : SavePersistReturn(i, resp)
  \/ \E i \in 1..MaxSaves : SaveOnPostSaveReturn(i)

Spec == Init /\ [][Next]_vars

\* Saving again after a save that was cancelled or failed validation: two save
\* calls, one after the other, with at most one listener registered per render.
NextRetry ==
  \/ Mount
  \/ \E i \in 1..MaxLoads : LoadMetadataReturn(i, TRUE)
  \/ \E i \in 1..MaxLoads : LoadPermsReturn(i)
  \/ \E value \in FieldValues : setField("Name", value)
  \/ \E eventName \in EventNames :
       /\ Observed(MaxRetryCalls)
       /\ Len(registered) < MaxRetryListeners
       /\ on(eventName, "L1")
  \/ \E hooks \in SaveHooks : saveCalls < MaxRetryCalls /\ NoSaveInFlight /\ save(hooks)
  \/ \E i \in 1..MaxSaves, result \in HookResults("preValidate") : SavePreValidateReturn(i, result)
  \/ \E i \in 1..MaxSaves, result \in HookResults("onPreSave") : SaveOnPreSaveReturn(i, result)
  \/ \E i \in 1..MaxSaves, result \in BOOLEAN : SaveListenerReturn(i, result)
  \/ \E i \in 1..MaxSaves, result \in HookResults("preSaveEvent") : SavePreSaveEventReturn(i, result)
  \/ \E i \in 1..MaxSaves : \E resp \in Responses(SubmissionData(saves[i])) : SavePersistReturn(i, resp)
  \/ \E i \in 1..MaxSaves : SaveOnPostSaveReturn(i)

SpecRetry == Init /\ [][NextRetry]_vars

\* A save suspended in a call-site hook while snapshots are assigned and records
\* are loaded: no instance-level hook, no listener, no dependent view.
RaceProps ==
  {[id |-> Undefined, snapshot |-> UndefinedObj, onPreSave |-> FALSE, onPostSave |-> FALSE,
    defaults |-> <<>>, table |-> WidgetMetadata]}
RaceHooks == {[preValidate |-> a, preSaveEvent |-> TRUE, postSaveEvent |-> FALSE] : a \in BOOLEAN}

InitRace == InitWith(RaceProps)

NextRace ==
  \/ Mount
  \/ load(Str("1"))
  \/ \E i \in 1..MaxLoads : LoadMetadataReturn(i, TRUE)
  \/ \E i \in 1..MaxLoads : LoadReadReturn(i, "row", SnapB)
  \/ \E i \in 1..MaxLoads : LoadPermsReturn(i)
  \/ setField("Name", Str("W"))
  \/ setSnapshot(SnapA)
  \/ \E k \in DOMAIN assigns : SetSnapshotComplete(k)
  \/ \E hooks \in RaceHooks : saveCalls < MaxSaveCalls /\ NoSaveInFlight /\ save(hooks)
  \/ \E i \in 1..MaxSaves, result \in HookResults("preValidate") : SavePreValidateReturn(i, result)
  \/ \E i \in 1..MaxSaves, result \in HookResults("preSaveEvent") : SavePreSaveEventReturn(i, result)
  \/ \E i \in 1..MaxSaves : \E resp \in Responses(SubmissionData(saves[i])) : SavePersistReturn(i, resp)

SpecRace == InitRace /\ [][NextRace]_vars

\* Loading and snapshot assignment alone: the mount load, calls of load(id) and
\* of setSnapshot at any moment, requests that fail, records that are missing.
LoadProps ==
  {[id |-> i, snapshot |-> UndefinedObj, onPreSave |-> FALSE, onPostSave |-> FALSE,
    defaults |-> <<>>, table |-> WidgetMetadata] : i \in {Undefined, Str("1")}}

InitLoad == InitWith(LoadProps)

NextLoad ==
  \/ Mount
  \/ load(Str("1"))
  \/ \E i \in 1..MaxLoads, ok \in BOOLEAN : LoadMetadataReturn(i, ok)
  \/ \E i \in 1..MaxLoads, result \in ReadResults, row \in Rows : LoadReadReturn(i, result, row)
  \/ \E i \in 1..MaxLoads : LoadPermsReturn(i)
  \/ setField("Name", Str("W"))
  \/ \E snapshot \in SnapshotArgs : setSnapshot(snapshot)
  \/ \E k \in DOMAIN assigns : SetSnapshotComplete(k)

SpecLoad == InitLoad /\ [][NextLoad]_vars

\* Loading and refreshing a record next to its dependent views: the mount load,
\* load(id), reload() of the record held, reads that fail or find nothing, a
\* snapshot handed in by the caller, views that register at any moment.
RefreshProps ==
  {[id |-> i, snapshot |-> sn, onPreSave |-> FALSE, onPostSave |-> FALSE,
    defaults |-> <<>>, table |-> WidgetMetadata] :
     i \in {Undefined, Str("1")}, sn \in {UndefinedObj, NullObj, SnapA}}

InitRefresh == InitWith(RefreshProps)

NextRefresh ==
  \/ Mount
  \/ load(Str("1"))
  \/ \E refreshDatatables \in BOOLEAN : reload(refreshDatatables)
  \/ \E i \in 1..MaxLoads : LoadMetadataReturn(i, TRUE)
  \/ \E i \in 1..MaxLoads, result \in ReadResults : LoadReadReturn(i, result, SnapB)
  \/ \E i \in 1..MaxLoads : LoadPermsReturn(i)
  \/ \E k \in DOMAIN assigns : SetSnapshotComplete(k)
  \/ \E id \in ViewIds, refresh \in Capabilities : Mounted /\ addDataTable(id, refresh)

SpecRefresh == InitRefresh /\ [][NextRefresh]_vars

\* The schemas the metadata service can hold: a field Status of any type,
\* nullable or not, required or not, after a field Name or an audit field.
FieldTypes == NumericTypes \cup {"String", "Guid", "Boolean", "DateTime", "Lookup"}
FirstFields ==
  {Field("Name", "String", FALSE, TRUE), Field("CreatedById", "Lookup", FALSE, TRUE),
   Field("UpdatedById", "DateTime", FALSE, TRUE)}
FormSchemas ==
  {[defined |-> TRUE, tableName |-> TableName,
    fields |-> <<first, Field("Status", t, nullable, required)>>] :
     first \in FirstFields, t \in FieldTypes, nullable \in BOOLEAN, required \in BOOLEAN}

\* {Id: "1", Name: "A", Status: null}
SnapStale ==
  [k \in {"Id", "Name", "Status"} |->
     IF k = "Id" THEN Str("1") ELSE IF k = "Name" THEN Str("A") ELSE Null]
\* a record with its identifier, a key the schema does not have, and no Name
SnapKnown ==
  [k \in {IdField, "Status", "Legacy", UiInfoKey} |->
     IF k = IdField THEN Str("7") ELSE IF k = "Status" THEN Str("S")
     ELSE IF k = "Legacy" THEN Str("L") ELSE <<"info", "canUpdate:false", "canDelete:false">>]
\* a record whose identifier and metadata are null and whose Status is undefined
SnapHollow ==
  [k \in {IdField, "Name", "Status", UiInfoKey} |->
     IF k = "Name" THEN Str("A") ELSE IF k = "Status" THEN Undefined ELSE Null]

\* Synthesis of the edit buffer: the mount load of a new record under any of
\* these schemas, with caller defaults for Status or for a field the schema
\* does not have, and snapshots assigned once the schema is known.
SynthDefaults ==
  {<<>>, <<[field |-> "Status", value |-> Str("D")]>>,
   <<[field |-> "Owner", value |-> Str("D")]>>,
   <<[field |-> "Status", value |-> Str("D")], [field |-> "Status", value |-> Str("E")]>>}
SynthProps ==
  {[id |-> Undefined, snapshot |-> UndefinedObj, onPreSave |-> FALSE, onPostSave |-> FALSE,
    defaults |-> d, table |-> t] : d \in SynthDefaults, t \in FormSchemas}
SynthSnapshots == {SnapStale, SnapKnown, SnapHollow}

InitSynth == InitWith(SynthProps)

NextSynth ==
  \/ Mount
  \/ \E i \in 1..MaxLoads : LoadMetadataReturn(i, TRUE)
  \/ \E i \in 1..MaxLoads : LoadPermsReturn(i)
  \/ \E snapshot \in SynthSnapshots : state.metadata.defined /\ setSnapshot(snapshot)
  \/ \E k \in DOMAIN assigns : SetSnapshotComplete(k)

SpecSynth == InitSynth /\ [][NextSynth]_vars

\* Editing and validating: Status is set to a value, to "", null or undefined,
\* is made required by the caller, validate() is called, a snapshot is assigned.
FormProps ==
  {[id |-> Undefined, snapshot |-> UndefinedObj, onPreSave |-> FALSE, onPostSave |-> FALSE,
    defaults |-> <<>>, table |-> t] : t \in FormSchemas}
FormValues == {Undefined, Null, Str(""), Str("x")}

InitForm == InitWith(FormProps)

NextForm ==
  \/ Mount
  \/ \E i \in 1..MaxLoads : LoadMetadataReturn(i, TRUE)
  \/ \E i \in 1..MaxLoads : LoadPermsReturn(i)
  \/ state.metadata.defined /\ setSnapshot(SnapKnown)
  \/ \E k \in DOMAIN assigns : SetSnapshotComplete(k)
  \/ \E value \in FormValues : Mounted /\ setField("Status", value)
  \/ Mounted /\ addRequiredField("Status")
  \/ validate

SpecForm == InitForm /\ [][NextForm]_vars

\* Registrations and the renders between them: a listener, a dependent view and
\* a required field are registered at any moment, the one field of the schema is
\* optional and is edited, and saves without hooks are called one after the other.
OptionalMetadata ==
  [defined |-> TRUE, tableName |-> TableName,
   fields |-> <<Field("Name", "String", TRUE, FALSE)>>]
RegistryProps ==
  {[id |-> Undefined, snapshot |-> UndefinedObj, onPreSave |-> FALSE, onPostSave |-> FALSE,
    defaults |-> <<>>, table |-> OptionalMetadata]}

InitRegistry == InitWith(RegistryProps)

NextRegistry ==
  \/ Mount
  \/ \E i \in 1..MaxLoads : LoadMetadataReturn(i, TRUE)
  \/ \E i \in 1..MaxLoads : LoadPermsReturn(i)
  \/ \E value \in FieldValues : Mounted /\ setField("Name", value)
  \/ \E eventName \in EventNames : Mounted /\ on(eventName, "L1")
  \/ Mounted /\ addDataTable("1", "r1")
  \/ Mounted /\ addRequiredField("Name")
  \/ saveCalls < MaxSaveCalls /\ NoSaveInFlight /\ save(NoHooks)
  \/ \E i \in 1..MaxSaves, result \in BOOLEAN : SaveListenerReturn(i, result)
  \/ \E i \in 1..MaxSaves : \E resp \in Responses(SubmissionData(saves[i])) : SavePersistReturn(i, resp)

SpecRegistry == InitRegistry /\ [][NextRegistry]_vars

\* Silent saves of a new record and of a record whose snapshot was assigned,
\* on a container with both instance-level hooks configured, a listener and a
\* dependent view registered, and a required field that is empty or edited.
SilentProps ==
  {[id |-> Undefined, snapshot |-> UndefinedObj, onPreSave |-> TRUE, onPostSave |-> TRUE,
    defaults |-> <<>>, table |-> WidgetMetadata]}

InitSilent == InitWith(SilentProps)

NextSilent ==
  \/ Mount
  \/ \E i \in 1..MaxLoads : LoadMetadataReturn(i, TRUE)
  \/ \E i \in 1..MaxLoads : LoadPermsReturn(i)
  \/ \E value \in FieldValues : Mounted /\ setField("Name", value)
  \/ \E eventName \in EventNames : Mounted /\ on(eventName, "L1")
  \/ Mounted /\ addDataTable("1", "r1")
  \/ state.metadata.defined /\ setSnapshot(SnapA)
  \/ \E k \in DOMAIN assigns : SetSnapshotComplete(k)
  \/ \E parameters \in SilentParameters : saveCalls < MaxSaveCalls /\ saveSilent(parameters)
  \/ \E i \in 1..MaxSaves : \E resp \in Responses(saves[i].cstate.data) : SaveSilentReturn(i, resp)

SpecSilent == InitSilent /\ [][NextSilent]_vars

\* Saves called while another save is under way: nothing but the number of
\* slots limits them; the instance-level onPostSave is configured and awaited,
\* the call-site postSaveEvent is given or not.
ConcurrentProps ==
  {[id |-> Undefined, snapshot |-> UndefinedObj, onPreSave |-> FALSE, onPostSave |-> TRUE,
    defaults |-> <<>>, table |-> WidgetMetadata]}
ConcurrentHooks ==
  {[preValidate |-> FALSE, preSaveEvent |-> FALSE, postSaveEvent |-> b] : b \in BOOLEAN}

InitConcurrent == InitWith(ConcurrentProps)

NextConcurrent ==
  \/ Mount
  \/ \E i \in 1..MaxLoads : LoadMetadataReturn(i, TRUE)
  \/ \E i \in 1..MaxLoads : LoadPermsReturn(i)
  \/ \E value \in FieldValues : Mounted /\ setField("Name", value)
  \/ \E hooks \in ConcurrentHooks : saveCalls < MaxSaves /\ save(hooks)
  \/ \E i \in 1..MaxSaves : \E resp \in Responses(SubmissionData(saves[i])) : SavePersistReturn(i, resp)
  \/ \E i \in 1..MaxSaves : SaveOnPostSaveReturn(i)

SpecConcurrent == InitConcurrent /\ [][NextConcurrent]_vars

\* One save from its call to its end, when every collaborator of the save
\* answers: each awaited hook, listener and persistence request resolves at some
\* time; nothing obliges the caller to call anything.
SaveResumes ==
  \/ \E i \in 1..MaxSaves, result \in HookResults("preValidate") : SavePreValidateReturn(i, result)
  \/ \E i \in 1..MaxSaves, result \in HookResults("onPreSave") : SaveOnPreSaveReturn(i, result)
  \/ \E i \in 1..MaxSaves, result \in BOOLEAN : SaveListenerReturn(i, result)
  \/ \E i \in 1..MaxSaves, result \in HookResults("preSaveEvent") : SavePreSaveEventReturn(i, result)
  \/ \E i \in 1..MaxSaves : \E resp \in Responses(SubmissionData(saves[i])) : SavePersistReturn(i, resp)
  \/ \E i \in 1..MaxSaves : SaveOnPostSaveReturn(i)
LoadResumes ==
  \/ \E i \in 1..MaxLoads : LoadMetadataReturn(i, TRUE)
  \/ \E i \in 1..MaxLoads : LoadPermsReturn(i)

NextLive ==
  \/ Mount
  \/ LoadResumes
  \/ \E value \in FieldValues : Mounted /\ setField("Name", value)
  \/ Observed(MaxSaveCalls) /\ Len(registered) < MaxRetryListeners /\ on("PRE_SAVE", "L1")
  \/ \E hooks \in SaveHooks : saveCalls < MaxSaveCalls /\ NoSaveInFlight /\ save(hooks)
  \/ SaveResumes

SpecLive == Init /\ [][NextLive]_vars /\ WF_vars(SaveResumes)

\* The operation kind next to save: a caller that hands in no snapshot, null or
\* a record, edits the buffer, assigns another record and saves at any moment
\* after the mount.
OperationProps ==
  {[id |-> Undefined, snapshot |-> sn, onPreSave |-> FALSE, onPostSave |-> FALSE,
    defaults |-> <<>>, table |-> WidgetMetadata] : sn \in {UndefinedObj, NullObj, SnapA}}

InitOperation == InitWith(OperationProps)

NextOperation ==
  \/ Mount
  \/ \E i \in 1..MaxLoads : LoadMetadataReturn(i, TRUE)
  \/ \E i \in 1..MaxLoads : LoadPermsReturn(i)
  \/ setField("Name", Str("W"))
  \/ setSnapshot(SnapB)
  \/ \E k \in DOMAIN assigns : SetSnapshotComplete(k)
  \/ saveCalls < MaxSaveCalls /\ NoSaveInFlight /\ save(NoHooks)
  \/ \E i \in 1..MaxSaves : \E resp \in Responses(SubmissionData(saves[i])) : SavePersistReturn(i, resp)

SpecOperation == InitOperation /\ [][NextOperation]_vars


\* ------------------------------------------- reading the record of a save
\* saves[i].tr is what save i did so far, in order: the calls it made, what
\* they resolved with, and its dispatches. `registered` and `registeredViews`
\* are what has been registered on the container since it was created.
IsSaveStep(i) == saves'[i].tr # saves[i].tr
Invokes(i) == IsSaveStep(i) /\ ~InFlight(saves[i])
Has(t, ev, who) == \E k \in 1..Len(t) : t[k].ev = ev /\ t[k].who = who
HasEv(t, ev) == \E k \in 1..Len(t) : t[k].ev = ev
Where(t, ev) == CHOOSE k \in 1..Len(t) : t[k].ev = ev
OfEvent(els, eventName) ==
  LET Named(x) == x.eventName = eventName IN SelectSeq(els, Named)
CallsOf(t, ev) == LET Is(e) == e.ev = ev IN SelectSeq(t, Is)
RefreshesOf(t, id) == LET Is(e) == e.ev = "refresh" /\ e.op = id IN SelectSeq(t, Is)
CallbacksOf(regs) == [n \in 1..Len(regs) |-> regs[n].callback]
Who(calls) == [n \in 1..Len(calls) |-> calls[n].who]
Continue(name) ==
  Ev("return", name, "continue", Undefined, EmptyObj, [k \in {"last", name} |-> Str(name)])
IsPostNotification(e) ==
  \/ e.ev = "POST_SAVE"
  \/ e.ev = "hook" /\ e.who \in {"onPostSave", "postSaveEvent"}
PostNotificationsOf(t) == SelectSeq(t, IsPostNotification)
IsLaterStage(e) ==
  \/ e.ev \in {"persist", "response", "refresh", "validate", "PRE_SAVE"}
  \/ e.ev = "hook" /\ e.who # "preValidate"
  \/ e.ev = "dispatch"
  \/ IsPostNotification(e)
PreValidateVeto(t) == Has(t, "return", "preValidate") /\ t[Where(t, "return")].op = "cancel"
ListenerVeto(t, k) ==
  k > 1 /\ t[k].ev = "return" /\ t[k].op = "cancel" /\ t[k - 1].ev = "PRE_SAVE"

\* a is a subsequence of b
RECURSIVE Embeds(_, _)
Embeds(a, b) ==
  IF a = <<>> THEN TRUE
  ELSE IF b = <<>> THEN FALSE
  ELSE IF Head(a) = Head(b) THEN Embeds(Tail(a), Tail(b))
  ELSE Embeds(a, Tail(b))

\* the listeners of an event registered on the container before save s was invoked
KnownTo(s, eventName) == OfEvent(SubSeq(registered, 1, s.seen), eventName)

\* ------------------------------------------------------------ save: C1-C8
\* C1: when the call-site preValidate hook resolves with continue = false, the
\* save returns at once: its whole record is the preValidate call and that
\* answer (no validator, onPreSave, PRE_SAVE listener, preSaveEvent,
\* persistence call, POST_SAVE listener or view refresh), and neither the
\* invocation of the save nor its return changes the reducer state, so the
\* lifecycle phase and the dirty set are what they were before the call.
PreValidateCancelIsInert ==
  [][\A i \in DOMAIN saves :
       LET t == saves'[i].tr
       IN /\ PreValidateVeto(t) =>
               /\ saves'[i].pc = "returned"
               /\ Len(t) = 2 /\ t[1] = E2("hook", "preValidate")
               /\ \A k \in 1..Len(t) : ~IsLaterStage(t[k])
               /\ IsSaveStep(i) =>
                    /\ state' = state
                    /\ Phase(state') = Phase(state)
                    /\ state'.dirtyFields = state.dirtyFields
          /\ IsSaveStep(i) /\ t = <<E2("hook", "preValidate")>> => state' = state]_vars
PreValidateCancelSeen ==
  \E i \in DOMAIN saves :
    /\ saves[i].pc = "returned" /\ PreValidateVeto(saves[i].tr)
    /\ props.onPreSave /\ saves[i].hooks.preSaveEvent
    /\ OfEvent(saves[i].els, "PRE_SAVE") # <<>> /\ OfEvent(saves[i].els, "POST_SAVE") # <<>>
    /\ saves[i].cdt # <<>>
    /\ state.dirtyFields # <<>> /\ Phase(state) = "READY"

\* the step of save i in which onValidate runs, and what it runs on
Validates(i) ==
  /\ Has(saves'[i].tr, "validate", "onValidate")
  /\ saves[i].pc = "preValidate" \/ ~InFlight(saves[i])
ValidatedState(i) == IF saves[i].pc = "preValidate" THEN saves[i].cstate ELSE state
ValidatedRequired(i) == IF saves[i].pc = "preValidate" THEN Req(saves[i]) ELSE requiredFields
InvalidSaveStopsThere(i) ==
  LET t == saves'[i].tr
      messages == ValidationMessagesOf(ValidatedState(i), ValidatedRequired(i))
  IN /\ Validates(i) => (saves'[i].pc = "invalid" <=> messages # <<>>)
     /\ saves'[i].pc = "invalid" =>
          /\ state'.validationMessages = messages /\ messages # <<>>
          /\ Phase(state') = Phase(state)
          /\ state'.data = state.data /\ state'.dirtyFields = state.dirtyFields
          /\ t[Len(t)] = E2("validate", "onValidate")
          /\ \A k \in 1..(Len(t) - 1) : t[k].who = "preValidate"
RetryCreates(i) ==
  LET t == saves'[i].tr
      p == t[Where(t, "persist")]
  IN /\ saves'[i].pc = "persist" =>
          /\ saves'[i].cstate.snapshot = UndefinedObj => p.who = "create"
          /\ Get(p.data, "Name") = Get(saves'[i].cstate.data, "Name")
          /\ saves'[i].cstate.metadata.defined => Get(p.data, "Name") = Str("W")
     /\ saves'[i].pc = "done" => Phase(state') = "READY"

\* C2: a save whose validator pass yields a message (a required Name of "")
\* publishes exactly those messages, and ends there: no SET_IS_LOADING (the
\* save does not make the phase SUBMITTING), no persistence call, no hook or
\* listener but preValidate, buffer untouched; a pass with no message goes on.
\* A save that reaches its persistence call with no snapshot in its state issues
\* a create carrying the Name its state held, a non-empty one once the schema
\* is known, and the step that ends it leaves the phase READY.
InvalidSaveThenRetry ==
  [][\A i \in DOMAIN saves : IsSaveStep(i) => InvalidSaveStopsThere(i) /\ RetryCreates(i)]_vars
RetryAfterInvalidSeen ==
  \E i \in DOMAIN saves :
    LET t == saves[i].tr
    IN /\ saveCalls = 2
       /\ state.validationMessages = <<[field |-> "Name", message |-> "Name is required"]>>
       /\ saves[i].pc = "done" /\ Phase(state) = "READY"
       /\ t[Where(t, "persist")].who = "create"
       /\ Get(t[Where(t, "persist")].data, "Name") = Str("W")
       /\ t[Where(t, "response")].op = "succeeded"

\* C3: the first PRE_SAVE listener that returns false ends the save: the phase
\* becomes SUBMIT_CANCELLED, the listeners registered after it are not called,
\* and there is no preSaveEvent, persistence call, POST_SAVE notification or
\* view refresh; the listeners before it were called in registration order.
ListenerVetoCancelsSave ==
  [][\A i \in DOMAIN saves :
       LET t == saves'[i].tr
           calls == CallsOf(t, "PRE_SAVE")
           pre == OfEvent(saves'[i].els, "PRE_SAVE")
       IN \A k \in 1..Len(t) :
            ListenerVeto(t, k) =>
              /\ saves'[i].pc = "cancelled"
              /\ k = Len(t) - 1 /\ t[Len(t)] = E2("dispatch", "SUBMIT_CANCELLED")
              /\ Len(calls) <= Len(pre)
              /\ \A n \in 1..Len(calls) : calls[n].who = pre[n].callback
              /\ \A n \in 1..(k - 2) : t[n].ev = "return" => t[n].op = "continue"
              /\ ~Has(t, "hook", "preSaveEvent") /\ ~HasEv(t, "persist")
              /\ ~HasEv(t, "refresh") /\ \A n \in 1..Len(t) : ~IsPostNotification(t[n])
              /\ IsSaveStep(i) => Phase(state') = "SUBMIT_CANCELLED"]_vars
ListenerVetoSeen ==
  \E i \in DOMAIN saves :
    LET t == saves[i].tr
    IN /\ saves[i].pc = "cancelled"
       /\ Len(OfEvent(saves[i].els, "PRE_SAVE")) = 2
       /\ Len(CallsOf(t, "PRE_SAVE")) = 1
       /\ ListenerVeto(t, Len(t) - 1)
       /\ saves[i].hooks.preSaveEvent /\ saves[i].cdt # <<>>
       /\ Phase(state) = "SUBMIT_CANCELLED"

\* what a save does before its persistence call when nothing stops it
RECURSIVE Rounds(_)
Rounds(pre) ==
  IF pre = <<>> THEN <<>>
  ELSE <<Ev("PRE_SAVE", Head(pre).callback, "", Undefined, EmptyObj, EmptyObj),
         Ev("return", Head(pre).callback, "continue", Undefined, EmptyObj, EmptyObj)>>
         \o Rounds(Tail(pre))
StepsBeforePersist(s) ==
  (IF s.hooks.preValidate THEN <<E2("hook", "preValidate"), Continue("preValidate")>>
   ELSE <<>>)
    \o <<E2("validate", "onValidate"), E2("dispatch", "SET_IS_LOADING")>>
    \o (IF props.onPreSave THEN <<E2("hook", "onPreSave"), Continue("onPreSave")>> ELSE <<>>)
    \o Rounds(OfEvent(Els(s), "PRE_SAVE"))
    \o (IF s.hooks.preSaveEvent THEN <<E2("hook", "preSaveEvent"), Continue("preSaveEvent")>>
        ELSE <<>>)
\* the order of the steps alone, over the listeners the save's render holds
PersistFollowsItsSteps ==
  \A i \in DOMAIN saves :
    LET t == saves[i].tr
    IN HasEv(t, "persist") =>
         /\ SubSeq(t, 1, Where(t, "persist") - 1) = StepsBeforePersist(saves[i])
         /\ Len(CallsOf(t, "persist")) = 1
         /\ saves[i].pc = "persist" =>
              ValidationMessagesOf(saves[i].cstate, Req(saves[i])) = <<>>
RegisteredPreSaveListenersRan ==
  \A i \in DOMAIN saves :
    HasEv(saves[i].tr, "persist") =>
      Embeds(CallbacksOf(KnownTo(saves[i], "PRE_SAVE")), Who(CallsOf(saves[i].tr, "PRE_SAVE")))

\* C4: a save that has issued its persistence call did so after exactly these
\* steps, each once and in this order: preValidate (if given) continued,
\* validation passed, SET_IS_LOADING dispatched (phase SUBMITTING), props.onPreSave
\* (if configured) continued, every PRE_SAVE listener called in registration order
\* and none returned false, preSaveEvent (if given) continued. The listeners
\* called must include every PRE_SAVE listener registered on the container
\* before the save was invoked.
PersistOnlyAfterEveryStep == PersistFollowsItsSteps /\ RegisteredPreSaveListenersRan
PersistWithoutRegisteredListener ==
  \E i \in DOMAIN saves :
    /\ saves[i].pc = "persist"
    /\ KnownTo(saves[i], "PRE_SAVE") # <<>>
    /\ CallsOf(saves[i].tr, "PRE_SAVE") = <<>>

\* the persistence call of save i, in the step that issues it
IssuesPersist(i) == IsSaveStep(i) /\ saves'[i].pc = "persist"
PersistCall(i) == saves'[i].tr[Where(saves'[i].tr, "persist")]
Addressed(i) ==
  /\ PersistCall(i).op = saves'[i].cstate.metadata.tableName
  /\ PersistCall(i).data = SubmissionData(saves'[i])
  /\ PersistCall(i).params = saves'[i].parameters

\* C5 (as stated): the persistence call of a save is a create exactly when the
\* container state holds no snapshot at the moment the call is issued, an update
\* otherwise, also when a load or a snapshot assignment completed while the save
\* was suspended; it carries the table name, the payload and the parameters.
PersistKindFollowsContainer ==
  [][\A i \in DOMAIN saves :
       IssuesPersist(i) =>
         /\ PersistCall(i).who = "create" <=> state'.snapshot = UndefinedObj
         /\ PersistCall(i).who \in {"create", "update"}
         /\ Addressed(i)]_vars

\* C5 (amended): the persistence call of a save is a create exactly when the
\* state of the render the save was invoked on holds no snapshot (undefined),
\* an update otherwise, whatever load or snapshot assignment completed while the
\* save was suspended; it carries the table name of the schema in that state,
\* the payload and the parameters.
PersistKindFollowsInvocation ==
  [][\A i \in DOMAIN saves :
       /\ Invokes(i) /\ InFlight(saves'[i]) => saves'[i].cstate = state
       /\ InFlight(saves[i]) /\ InFlight(saves'[i]) => saves'[i].cstate = saves[i].cstate
       /\ IssuesPersist(i) =>
            /\ PersistCall(i).who = "create" <=> saves'[i].cstate.snapshot = UndefinedObj
            /\ PersistCall(i).who \in {"create", "update"}
            /\ Addressed(i)]_vars
CreateWhileSnapshotHeld ==
  \E i \in DOMAIN saves :
    /\ saves[i].pc = "persist"
    /\ saves[i].tr[Where(saves[i].tr, "persist")].who = "create"
    /\ saves[i].cstate.snapshot = UndefinedObj
    /\ state.snapshot = SnapA

\* what the post-save channels of a save are told, and in which order
PostArgsOf(t) ==
  LET r == t[Where(t, "response")]
      p == t[Where(t, "persist")]
  IN IF r.op = "succeeded"
     THEN [op |-> IF p.who = "create" THEN "CREATE" ELSE "UPDATE", id |-> r.id, data |-> r.data]
     ELSE [op |-> "FAILED", id |-> Str(""), data |-> EmptyObj]
PostCall(ev, who, a) == Ev(ev, who, a.op, a.id, a.data, EmptyObj)
PostChannels(s) ==
  LET a == PostArgsOf(s.tr)
      post == OfEvent(Els(s), "POST_SAVE")
  IN (IF props.onPostSave THEN <<PostCall("hook", "onPostSave", a)>> ELSE <<>>)
       \o [n \in 1..Len(post) |-> PostCall("POST_SAVE", post[n].callback, a)]
       \o (IF s.hooks.postSaveEvent THEN <<PostCall("hook", "postSaveEvent", a)>> ELSE <<>>)
\* the order and the arguments alone, over the listeners the save's render holds
PostSaveChannelsInOrder ==
  \A i \in DOMAIN saves :
    LET t == saves[i].tr
    IN /\ saves[i].pc = "done" =>
            /\ PostNotificationsOf(t) = PostChannels(saves[i])
            /\ \A k \in 1..Len(t) : IsPostNotification(t[k]) => k > Where(t, "response")
       /\ ~HasEv(t, "response") => PostNotificationsOf(t) = <<>>
       /\ saves[i].pc \in {"returned", "invalid", "cancelled"} =>
            ~HasEv(t, "response") /\ PostNotificationsOf(t) = <<>>
RegisteredPostSaveListenersRan ==
  \A i \in DOMAIN saves :
    saves[i].pc = "done" =>
      Embeds(CallbacksOf(KnownTo(saves[i], "POST_SAVE")), Who(CallsOf(saves[i].tr, "POST_SAVE")))

\* C6: once the persistence call of a save has returned and the save is done,
\* its post-save notifications are props.onPostSave (if configured), then the
\* POST_SAVE listeners in registration order, then postSaveEvent (if given), each
\* once, all after the response, with (CREATE or UPDATE as the call issued, the
\* returned id, the returned data) on success and (FAILED, "", {}) on failure;
\* a save that was cancelled or failed validation notifies nobody. The listeners
\* notified must include every POST_SAVE listener registered on the container
\* before the save was invoked.
PostSaveNotifiesEveryChannel == PostSaveChannelsInOrder /\ RegisteredPostSaveListenersRan
PostSaveWithoutRegisteredListener ==
  \E i \in DOMAIN saves :
    /\ saves[i].pc = "done"
    /\ KnownTo(saves[i], "POST_SAVE") # <<>>
    /\ CallsOf(saves[i].tr, "POST_SAVE") = <<>>

\* how a save ends, over the views the save's render holds
EndsReadyThenRefreshes(i) ==
  LET t == saves'[i].tr
  IN /\ saves'[i].pc = "done" =>
          /\ Phase(state') = "READY"
          /\ HasEv(t, "response")
          /\ \E k \in 1..Len(t) :
               /\ t[k] = E2("dispatch", "SUBMIT_COMPLETE")
               /\ \A n \in 1..Len(t) : IsPostNotification(t[n]) => n < k
               /\ \A n \in 1..Len(t) : t[n].ev = "refresh" => n > k
               /\ SubSeq(t, k + 1, Len(t)) = RefreshCalls(saves'[i].cdt)
     /\ saves'[i].pc \in {"returned", "invalid", "cancelled"} => ~HasEv(t, "refresh")
RegisteredViewsRefreshed(i) ==
  saves'[i].pc = "done" =>
    \A n \in 1..Len(registeredViews) :
      Len(RefreshesOf(saves'[i].tr, registeredViews[n].dataTableId)) = 1
RefreshFollowsSubmitComplete ==
  [][\A i \in DOMAIN saves : IsSaveStep(i) => EndsReadyThenRefreshes(i)]_vars

\* C7: the step that ends a save whose persistence call returned (succeeded or
\* not) dispatches SUBMIT_COMPLETE, leaving the phase READY, and after it, and
\* after every post-save notification, calls refresh exactly once on every
\* dependent view registered on the container at that time; a save that ends
\* by cancellation or validation failure refreshes nothing.
SaveRefreshesEveryView ==
  [][\A i \in DOMAIN saves :
       IsSaveStep(i) => EndsReadyThenRefreshes(i) /\ RegisteredViewsRefreshed(i)]_vars
SaveEndsWithoutRefreshingView ==
  \E i \in DOMAIN saves :
    /\ saves[i].pc = "done"
    /\ registeredViews # <<>>
    /\ ~HasEv(saves[i].tr, "refresh")
    /\ Phase(state) = "READY"

\* C8: no step of a save that is cancelled (by preValidate, props.onPreSave, a
\* PRE_SAVE listener or preSaveEvent), from its invocation to its cancellation,
\* changes the edit buffer or the dirty set, so that a save invoked right after
\* the cancellation takes the same field values as its payload.
CancelPathKeepsEdits ==
  [][\A i \in DOMAIN saves :
       IsSaveStep(i) =>
         /\ saves'[i].pc \notin {"invalid", "done"} =>
              state'.data = state.data /\ state'.dirtyFields = state.dirtyFields
         /\ saves[i].pc \in {"returned", "cancelled"} /\ InFlight(saves'[i]) =>
              SubmissionData(saves'[i]) = Spread(EmptyObj, state.data)]_vars
SaveAfterCancelSeen ==
  \E i \in DOMAIN saves :
    /\ saveCalls = 2 /\ saves[i].pc = "preValidate"
    /\ Phase(state) = "SUBMIT_CANCELLED"
    /\ state.dirtyFields = <<"Name">>
    /\ SubmissionData(saves[i]) = Spread(EmptyObj, state.data)
    /\ Get(state.data, "Name") = Str("W")

\* ------------------------------------------- the snapshot queue: C9, C10
Queues == Len(snapshotQueue') = Len(snapshotQueue) + 1
Completes(i) == loads[i].pc = "perms" /\ loads'[i].pc = "done"
IsReplay(a) == a.src # "call"
Replays(as) == SelectSeq(as, IsReplay)
\* load i is over, and the setSnapshot call of its drain took the queue branch
Requeued(i) ==
  LET t == loads[i].tr
  IN loads[i].pc = "done" /\ t # <<>> /\ t[Len(t)].ev = "setSnapshot" /\ t[Len(t)].who = "queue"

\* C9: setSnapshot called while the schema is unknown leaves the reducer state
\* as it is and appends the snapshot to the queue; when a load then completes
\* with the queue not empty, the assignment of the last queued snapshot is under
\* way, and its completion makes that snapshot the state's snapshot and the
\* buffer the one synthesized from the schema and that snapshot.
QueuedSnapshotSupersedesLoad ==
  [][/\ Queues => /\ state' = state /\ ~state.metadata.defined
                  /\ Front(snapshotQueue') = snapshotQueue
     /\ \A i \in DOMAIN loads :
          Completes(i) /\ snapshotQueue # <<>> =>
            \E k \in DOMAIN assigns' :
              /\ assigns'[k].snapshot = Last(snapshotQueue)
              /\ assigns'[k].metadata = state'.metadata
     /\ \A k \in DOMAIN assigns :
          assigns' = RemoveAt(assigns, k) /\ Len(assigns') < Len(assigns) /\ state' # state =>
            /\ state'.snapshot = assigns[k].snapshot
            /\ state'.data = getInitialData(assigns[k].metadata, assigns[k].snapshot,
                                            props.defaults)]_vars
QueuedSnapshotDropped ==
  \E i \in DOMAIN loads :
    /\ Requeued(i)
    /\ loads[i].tr[Len(loads[i].tr)].data = SnapA
    /\ state.metadata.defined /\ Phase(state) = "READY"
    /\ state.snapshot # SnapA
    /\ assigns = <<>> /\ snapshotQueue = <<>>
    /\ \A j \in DOMAIN loads : loads[j].pc \in {"idle", "done"}

\* C10: when a load completes with snapshots queued, exactly one assignment is
\* replayed, that of the snapshot queued last, and the queue is empty after it;
\* nothing else ever replays a queued snapshot.
OneReplayPerLoad ==
  [][/\ \A i \in DOMAIN loads :
          Completes(i) /\ snapshotQueue # <<>> =>
            /\ Len(Replays(assigns')) = Len(Replays(assigns)) + 1
            /\ Last(Replays(assigns')).snapshot = Last(snapshotQueue)
            /\ snapshotQueue' = <<>>
     /\ Len(Replays(assigns')) > Len(Replays(assigns)) =>
          /\ \E i \in DOMAIN loads : Completes(i)
          /\ snapshotQueue # <<>>
          /\ Len(Replays(assigns')) = Len(Replays(assigns)) + 1]_vars
LoadEndedWithoutReplay ==
  \E i \in DOMAIN loads :
    /\ Requeued(i)
    /\ loads[i].tr[Len(loads[i].tr)].data = SnapB
    /\ snapshotQueue = <<>>
    /\ Replays(assigns) = <<>> /\ assigns = <<>>
    /\ state.snapshot # SnapB

\* ------------------------------------------------------- loads: C11-C13
Starts(i) == loads[i].pc = "idle" /\ loads'[i].pc # "idle"
FetchFails(i) == loads[i].pc = "read" /\ loads'[i].pc = "aborted"
MissingRecordPublished(i) == Completes(i) /\ loads[i].missingRecord
Unreadable(st) ==
  st.canRead =
    [canRead |-> FALSE,
     message |-> "This record doesn't exist or you are missing the required permissions to access "
                   \o TableName]
\* the same without a snapshot handed in by the caller
MissingRecordWithoutCallerSnapshot ==
  [][\A i \in DOMAIN loads :
       MissingRecordPublished(i) =>
         /\ Phase(state') = "READY" /\ Unreadable(state')
         /\ IsNullish(props.snapshot) =>
              IsNullish(state'.snapshot) /\ operation(props, state') = "CREATE"]_vars

\* C11: the step that ends a load whose read succeeded with zero rows publishes
\* READY with canRead = false and the message naming the table, with no
\* snapshot in the state, and the operation kind handed to consumers is CREATE:
\* for a load by id and for a refresh load, whatever snapshot the caller supplied.
MissingRecordIsUnreadableCreate ==
  [][\A i \in DOMAIN loads :
       MissingRecordPublished(i) =>
         /\ Phase(state') = "READY" /\ Unreadable(state')
         /\ IsNullish(state'.snapshot)
         /\ operation(props, state') = "CREATE"]_vars
MissingRecordKeepsCallerSnapshot ==
  \E i \in DOMAIN loads :
    /\ loads[i].pc = "done" /\ loads[i].refresh
    /\ Unreadable(state) /\ Phase(state) = "READY"
    /\ props.snapshot = SnapA /\ state.snapshot = SnapA
    /\ operation(props, state) = "UPDATE"

\* how a load that completes refreshes, over the views the load's render holds
RefreshesThenReady(i) ==
  LET t == loads'[i].tr
      k == Where(t, "dispatch")
  IN /\ t[k] = E2("dispatch", "INITIAL_LOAD_COMPLETE") /\ Phase(state') = "READY"
     /\ \A n \in 1..Len(t) : t[n].ev = "refresh" => n < k
     /\ CallsOf(t, "refresh") =
          IF loads[i].refreshDatatables THEN RefreshCalls(Cdt(loads[i])) ELSE <<>>
LoadRefreshesBeforeReady ==
  [][\A i \in DOMAIN loads : Completes(i) => RefreshesThenReady(i)]_vars

\* C12: a load called with refreshDatatables calls refresh once on every
\* dependent view registered on the container, all of it before it dispatches
\* INITIAL_LOAD_COMPLETE (the transition to READY) and nothing after; a load
\* called without it refreshes no view.
LoadRefreshesEveryViewFirst ==
  [][\A i \in DOMAIN loads :
       Completes(i) =>
         /\ RefreshesThenReady(i)
         /\ loads[i].refreshDatatables =>
              \A n \in 1..Len(registeredViews) :
                Len(RefreshesOf(loads'[i].tr, registeredViews[n].dataTableId)) = 1]_vars
LoadEndsWithoutRefreshingView ==
  \E i \in DOMAIN loads :
    /\ loads[i].pc = "done" /\ loads[i].refreshDatatables
    /\ loads[i].views # <<>> /\ registeredViews = loads[i].views
    /\ ~HasEv(loads[i].tr, "refresh")
    /\ Phase(state) = "READY"

\* C13 (as stated): when the read of a refresh load fails, the load ends without
\* publishing READY and the container is in phase LOADING.
FailedRefreshLeavesLoading ==
  [][\A i \in DOMAIN loads :
       FetchFails(i) /\ loads[i].refresh =>
         /\ ~HasEv(loads'[i].tr, "dispatch")
         /\ Phase(state') = "LOADING"]_vars

\* C13 (amended): a refresh load changes no reducer state from its call to its
\* failed read (it dispatches nothing, START_INITIAL_LOAD included), so the
\* load ends without publishing READY and the container is left in the phase
\* it had when the refresh was called.
FailedFetchLeavesPhase ==
  [][\A i \in DOMAIN loads :
       /\ Starts(i) /\ loads'[i].refresh => state' = state /\ Phase(state') = Phase(state)
       /\ loads[i].pc = "metadata" /\ loads'[i].pc = "read" => state' = state
       /\ FetchFails(i) =>
            /\ state' = state /\ Phase(state') = Phase(state)
            /\ ~HasEv(loads'[i].tr, "dispatch")]_vars
FailedRefreshSeenReady ==
  \E i \in DOMAIN loads :
    /\ loads[i].pc = "aborted" /\ loads[i].refresh
    /\ Phase(state) = "READY"
    /\ \A j \in DOMAIN loads : ~InFlight(loads[j])
    /\ assigns = <<>>

\* ---------------------------------------------------- lifecycle phase: C14
LifecycleEdges ==
  {<<"UNINITIALIZED", "LOADING">>, <<"LOADING", "READY">>, <<"READY", "SUBMITTING">>,
   <<"SUBMITTING", "READY">>, <<"SUBMITTING", "SUBMIT_CANCELLED">>,
   <<"READY", "LOADING">>, <<"SUBMIT_CANCELLED", "LOADING">>}
EndsSave(i) == IsSaveStep(i) /\ saves'[i].pc \in {"done", "cancelled"}

\* C14: every step that changes the lifecycle phase follows an edge of
\* UNINITIALIZED -> LOADING -> READY -> SUBMITTING -> {READY, SUBMIT_CANCELLED},
\* or starts a load from READY or SUBMIT_CANCELLED; and the step in which a save
\* completes or is cancelled is taken in phase SUBMITTING.
PhaseFollowsLifecycle ==
  [][/\ Phase(state') # Phase(state) => <<Phase(state), Phase(state')>> \in LifecycleEdges
     /\ \A i \in DOMAIN saves : EndsSave(i) => Phase(state) = "SUBMITTING"]_vars
\* no load and no snapshot assignment has completed yet, and a save is submitting
SubmittingBeforeFirstLoad ==
  /\ Phase(state) = "SUBMITTING"
  /\ ~state.metadata.defined
  /\ \E i \in DOMAIN loads : loads[i].pc = "metadata"
  /\ \E i \in DOMAIN saves : saves[i].pc = "preSaveEvent"
\* ---- buffer synthesis (C15, C16)
SchemaNames(metadata) == {metadata.fields[n].name : n \in 1..Len(metadata.fields)}
FieldNamed(metadata, name) ==
  metadata.fields[CHOOSE n \in 1..Len(metadata.fields) : metadata.fields[n].name = name]
DefaultNames(defaults) == {defaults[n].field : n \in 1..Len(defaults)}
LastDefault(defaults, name) ==
  defaults[CHOOSE n \in 1..Len(defaults) :
             /\ defaults[n].field = name
             /\ \A m \in n + 1..Len(defaults) : defaults[m].field # name].value

\* the value the field's type alone gives it
TypeDefault(f) ==
  IF f.type \in NumericTypes THEN (IF f.isNullable THEN Str("") ELSE Num("0"))
  ELSE IF f.type \in {"String", "Guid"} THEN Str("")
  ELSE IF f.type = "Boolean" THEN Bool("false")
  ELSE IF f.type = "DateTime" THEN (IF f.isNullable THEN Null ELSE Today)
  ELSE Null

\* the value of a schema field in a buffer synthesized without a snapshot
NewRecordValue(metadata, defaults, name) ==
  IF name \in DefaultNames(defaults) THEN LastDefault(defaults, name)
  ELSE TypeDefault(FieldNamed(metadata, name))

NewRecordValues(data) ==
  /\ \A name \in SchemaNames(props.table) :
        Get(data, name) = NewRecordValue(props.table, props.defaults, name)
  /\ Get(data, UiInfoKey) = UiInfo
  /\ \A name \in DefaultNames(props.defaults) :
        Get(data, name) = LastDefault(props.defaults, name)

SynthesizesNewRecord(i) == Completes(i) /\ loads[i].snapshot = UndefinedObj

\* The part of C15 the code keeps: every schema field holds its type's default or
\* the caller's default, the metadata key holds full permissions, and the only
\* other keys are the fields of caller defaults.
NewRecordBufferWithDefaultKeys ==
  [][\A i \in 1..MaxLoads : SynthesizesNewRecord(i) =>
       /\ DOMAIN state'.data =
            SchemaNames(props.table) \cup {UiInfoKey} \cup DefaultNames(props.defaults)
       /\ NewRecordValues(state'.data)]_vars

\* C15: synthesis with an absent snapshot yields a buffer whose key set is exactly
\* the schema's field names plus the reserved metadata key, every field holding
\* the default of its type (non-nullable numeric 0, nullable numeric "",
\* String/Guid "", Boolean false, nullable DateTime null, non-nullable DateTime
\* the start of today, Lookup null), the metadata key {canUpdate: true,
\* canDelete: true}, and a caller default overriding the value of its field.
NewRecordBufferHasSchemaKeys ==
  [][\A i \in 1..MaxLoads : SynthesizesNewRecord(i) =>
       /\ DOMAIN state'.data = SchemaNames(props.table) \cup {UiInfoKey}
       /\ NewRecordValues(state'.data)]_vars

\* a new record's buffer holding the key of a default the schema does not have
DefaultAddsForeignKey ==
  /\ loads[1].pc = "done"
  /\ loads[1].snapshot = UndefinedObj
  /\ state.snapshot = UndefinedObj
  /\ "Owner" \notin SchemaNames(state.metadata)
  /\ "Owner" \in DOMAIN state.data
  /\ state.data["Owner"] = Str("D")

FirstDefault(defaults, name) ==
  defaults[CHOOSE n \in 1..Len(defaults) :
             /\ defaults[n].field = name
             /\ \A m \in 1..n - 1 : defaults[m].field # name].value

\* the computed default of a schema field: that of its type, and for a Lookup
\* the caller's default when there is one
ComputedDefault(metadata, defaults, name) ==
  LET f == FieldNamed(metadata, name)
  IN IF /\ f.type = "Lookup"
        /\ name \in DefaultNames(defaults)
        /\ FirstDefault(defaults, name) \notin {Undefined, Null}
     THEN FirstDefault(defaults, name) ELSE TypeDefault(f)

\* the keys a buffer takes from a snapshot
KeptKeys(metadata, snapshot) ==
  {key \in DOMAIN snapshot :
     /\ snapshot[key] # Null
     /\ key \in SchemaNames(metadata) \cup {UiInfoKey, IdField}}

AssignsSnapshot(k) ==
  /\ k \in 1..Len(assigns)
  /\ assigns' = RemoveAt(assigns, k)
  /\ state'.snapshot = assigns[k].snapshot

\* C16: a buffer synthesized from a present snapshot holds a snapshot key's value
\* exactly when the value is not null and the key is a schema field, the metadata
\* key or the identifier field; any other snapshot key is absent from it; and a
\* schema field whose snapshot value is null or missing holds its computed default.
SnapshotBufferKeepsKnownKeys ==
  [][\A k \in 1..Len(assigns) : AssignsSnapshot(k) =>
       LET snapshot == assigns[k].snapshot
           names == SchemaNames(props.table)
           kept == KeptKeys(props.table, snapshot)
           data == state'.data
       IN /\ DOMAIN data = names \cup {UiInfoKey} \cup kept
          /\ \A key \in kept : data[key] = snapshot[key]
          /\ \A key \in DOMAIN snapshot \ (names \cup {UiInfoKey, IdField}) :
                key \notin DOMAIN data
          /\ Get(snapshot, IdField) = Null => IdField \notin DOMAIN data
          /\ \A name \in names \ kept :
                data[name] = ComputedDefault(props.table, props.defaults, name)
          /\ UiInfoKey \notin kept => data[UiInfoKey] = UiInfo]_vars

\* schema {Name, Status: non-nullable number}, snapshot {Id: "1", Name: "A",
\* Status: null}: the buffer is {Name: "A", Status: 0, _ui_info_}
StaleStatusTakesDefault ==
  /\ state.type = "SET_DATA_TO_EDIT"
  /\ assigns = <<>>
  /\ state.snapshot = SnapStale
  /\ DOMAIN state.data = {"Name", "Status", UiInfoKey}
  /\ state.data["Name"] = Str("A")
  /\ state.data["Status"] = Num("0")

\* ---- the validator (C17, C18)
ValidateReturns == validated'.calls = validated.calls + 1

IsAuditField(f) == f.name \in {"CreatedById", "UpdatedById"}
OverrideRequired(f) == \E n \in 1..Len(requiredFields) : requiredFields[n] = f.name

\* rule 2: a Lookup or DateTime that must have a value and has none
LookupOrDateRule(f, v) ==
  /\ f.type \in {"Lookup", "DateTime"}
  /\ (~f.isNullable \/ f.isRequired \/ OverrideRequired(f))
  /\ v \in {Null, Undefined}
\* rule 3: a required field that is empty
RequiredRule(f, v) ==
  /\ (f.isRequired \/ OverrideRequired(f))
  /\ v \in {Null, Undefined, Str("")}

RequiredCount(f, v) ==
  IF IsAuditField(f) THEN 0
  ELSE (IF LookupOrDateRule(f, v) THEN 1 ELSE 0) + (IF RequiredRule(f, v) THEN 1 ELSE 0)

\* the messages of a list that say the field is required
RequiredIn(messages, f) ==
  {n \in 1..Len(messages) :
     messages[n] = [field |-> f.name, message |-> f.displayName \o " is required"]}
MessagesOn(messages, f) == {n \in 1..Len(messages) : messages[n].field = f.name}

\* C17: the validator emits "<displayName> is required" for a field other than
\* CreatedById/UpdatedById once for rule 2 and once for rule 3, whichever hold: two
\* messages for a field meeting both, none for a field meeting neither, never a
\* message for CreatedById/UpdatedById; validation passes exactly when the whole
\* message list is empty.
ValidatorCountsRequiredRules ==
  [][ValidateReturns =>
       LET fields == state.metadata.fields
           total == ValidationMessagesOf(state, requiredFields)
       IN /\ validated'.result = (total = <<>>)
          /\ ~validated'.result => state'.validationMessages = total
          /\ \A n \in 1..Len(fields) :
                LET f == fields[n]
                    v == Get(state.data, f.name)
                IN /\ Cardinality(RequiredIn(total, f)) = RequiredCount(f, v)
                   /\ IsAuditField(f) => MessagesOn(total, f) = {}
                   /\ validated'.result => RequiredCount(f, v) = 0]_vars

\* a failed validation that published two "Status is required" messages for one
\* field: a nullable Lookup or DateTime the schema does not require, which the
\* caller made required, and which has no value
StatusRequiredTwice ==
  /\ validated.calls > 0
  /\ ~validated.result
  /\ \E n \in 1..Len(state.metadata.fields) :
        LET f == state.metadata.fields[n]
        IN /\ f.name = "Status"
           /\ f.type \in {"Lookup", "DateTime"}
           /\ f.isNullable /\ ~f.isRequired
           /\ Get(state.data, "Status") \in {Null, Undefined}
           /\ Cardinality(RequiredIn(state.validationMessages, f)) = 2

\* C18: a validator pass that produces no message clears the container's
\* validation messages: after an earlier failed validation left messages and the
\* fields were fixed, the validate() that passes leaves the published messages
\* empty.
PassingValidationClearsMessages ==
  [][ValidateReturns /\ validated'.result => state'.validationMessages = <<>>]_vars

\* Status failed a first validation, was then given a value, and the second
\* validation passed: the first one's messages are still published
PassedWithStaleMessages ==
  /\ validated = [calls |-> 2, result |-> TRUE]
  /\ ValidationMessagesOf(state, requiredFields) = <<>>
  /\ Get(state.data, "Status") = Str("x")
  /\ isDirty(state, Str("Status"))
  /\ \E n \in 1..Len(state.validationMessages) :
        state.validationMessages[n] = [field |-> "Status", message |-> "Status is required"]

\* ---- setField and the dirty set (C19)
EditedFields == {"Name", "Status"}
Dirty(st) == {st.dirtyFields[n] : n \in 1..Len(st.dirtyFields)}

\* what setField(f, v) makes of the current state, once and twice
SetFieldIsIdempotent ==
  \A f \in EditedFields, v \in FormValues :
     LET once == SetFieldValue(state, f, v)
         twice == SetFieldValue(once, f, v)
     IN /\ f \in DOMAIN once.data /\ once.data[f] = v
        /\ isDirty(once, Str(f))
        /\ Dirty(once) = Dirty(state) \cup {f}
        /\ Cardinality(Dirty(once)) = Len(once.dirtyFields)
        /\ twice.data = once.data
        /\ twice.dirtyFields = once.dirtyFields
        /\ isDirty(twice, Str(f))

NoArgumentMeansAnyField ==
  /\ isDirty(state, Undefined) <=> Dirty(state) # {}
  /\ isDirty(state, Null) <=> Dirty(state) # {}

\* a field enters the dirty set by a setField on it and by nothing else, and a
\* completed load or snapshot assignment empties the set
DirtyOnlyBySetField ==
  /\ \A f \in Dirty(state') \ Dirty(state) :
        \E v \in FormValues : state' = SetFieldValue(state, f, v)
  /\ \A i \in 1..MaxLoads : Completes(i) => Dirty(state') = {}
  /\ \A k \in 1..Len(assigns) : AssignsSnapshot(k) => Dirty(state') = {}

\* C19: setField(f, v) sets buffer[f] = v and puts f in the dirty set; a second
\* setField(f, v) with the same value leaves buffer and dirty set unchanged, f not
\* duplicated and isDirty(f) true; a field is in the dirty set only if setField was
\* called on it since the last load or snapshot assignment; isDirty() without an
\* argument is true exactly when the dirty set is not empty.
SetFieldMarksDirtyOnce ==
  /\ [](SetFieldIsIdempotent /\ NoArgumentMeansAnyField)
  /\ [][DirtyOnlyBySetField]_vars

\* Status was edited after the load, Name was not: only Status is dirty, and
\* setting Status to the value it has changes nothing
OnlyStatusDirty ==
  /\ state.type = "SET_DATA_TO_EDIT"
  /\ state.dirtyFields = <<"Status">>
  /\ state.data["Status"] = Str("x")
  /\ "Name" \in DOMAIN state.data
  /\ isDirty(state, Str("Status")) /\ isDirty(state, Undefined)
  /\ ~isDirty(state, Str("Name"))
  /\ SetFieldValue(state, "Status", Str("x")) = state

\* ---- the dependent-view registry (C20)
LatestOf(id) ==
  registeredViews[CHOOSE n \in 1..Len(registeredViews) : registeredViews[n].dataTableId = id]
RegisteredIds == {registeredViews[n].dataTableId : n \in 1..Len(registeredViews)}

\* The part of C20 the code keeps: the array of the current render holds at most
\* one entry per view identifier, and each entry is the latest registration of
\* its identifier.
RegistryEntriesAreLatest ==
  /\ \A m, n \in 1..Len(childDataTables) :
        childDataTables[m].dataTableId = childDataTables[n].dataTableId => m = n
  /\ \A n \in 1..Len(childDataTables) :
        childDataTables[n] = LatestOf(childDataTables[n].dataTableId)

\* a load that refreshes dependent views calls the latest capability of every
\* registered identifier once, and no other capability
RefreshesLatestOnce(i) ==
  LET calls == CallsOf(loads'[i].tr, "refresh")
  IN /\ \A id \in RegisteredIds :
          RefreshesOf(loads'[i].tr, id) = RefreshCalls(<<LatestOf(id)>>)
     /\ \A n \in 1..Len(calls) :
          /\ calls[n].op \in RegisteredIds
          /\ calls[n].who = LatestOf(calls[n].op).refresh

\* C20: the dependent-view registry holds at most one entry per view identifier,
\* the capability of the most recent registration of that identifier; a refresh
\* of dependent views calls each identifier's latest capability exactly once and
\* never a replaced one.
RefreshCallsLatestCapability ==
  /\ []RegistryEntriesAreLatest
  /\ [][\A i \in 1..MaxLoads :
          Completes(i) /\ loads[i].refreshDatatables => RefreshesLatestOnce(i)]_vars

\* a load ended having called r1 for a view that had re-registered r2 before
\* the refresh
ReplacedCapabilityRefreshed ==
  \E i \in 1..MaxLoads :
     /\ loads[i].pc = "done"
     /\ loads[i].refreshDatatables
     /\ loads[i].views = <<[dataTableId |-> "1", refresh |-> "r1"]>>
     /\ loads[i].latest = <<[dataTableId |-> "1", refresh |-> "r2"]>>
     /\ registeredViews = loads[i].latest
     /\ Who(RefreshesOf(loads[i].tr, "1")) = <<"r1">>

\* ---- the lifetime of the registries (C21)
NoValue(v) == v \in {Undefined, Null, Str("")}

\* what a save shows of the registrations made before it was invoked
HonoursRegistrations(i) ==
  LET s == saves'[i]
  IN /\ Invokes(i) /\ (\E f \in s.required \cap SchemaNames(state.metadata) :
                          NoValue(Get(state.data, f))) =>
          s.pc = "invalid"
     /\ s.pc = "persist" =>
          Who(CallsOf(s.tr, "PRE_SAVE")) = CallbacksOf(KnownTo(s, "PRE_SAVE"))
     /\ s.pc = "done" =>
          /\ Who(CallsOf(s.tr, "POST_SAVE")) = CallbacksOf(KnownTo(s, "POST_SAVE"))
          /\ \A n \in 1..Len(s.views) :
                Len(RefreshesOf(s.tr, s.views[n].dataTableId)) = 1

\* C21: a listener registered with on(), a dependent view registered with
\* addDataTable and a field added with addRequiredField stay registered for the
\* lifetime of the container: whatever loads, edits and snapshot assignments
\* came in between, a later save invokes the PRE_SAVE and POST_SAVE listeners
\* (one call per registration, in registration order), refreshes the view, and
\* its validator treats the field as required.
RegistrationsOutliveRenders ==
  [][\A i \in DOMAIN saves : IsSaveStep(i) => HonoursRegistrations(i)]_vars

\* a save that went through although the field registered as required was
\* empty, and that called no listener and refreshed no view, all three having
\* been registered before it was invoked
SaveIgnoredEveryRegistration ==
  \E i \in DOMAIN saves :
    /\ saves[i].pc = "done"
    /\ saves[i].required = {"Name"}
    /\ HasEv(saves[i].tr, "persist")
    /\ saves[i].tr[Where(saves[i].tr, "persist")].data = [k \in {"Name", UiInfoKey} |->
                                                            IF k = "Name" THEN Str("") ELSE UiInfo]
    /\ saves[i].views # <<>>
    /\ KnownTo(saves[i], "PRE_SAVE") # <<>> /\ KnownTo(saves[i], "POST_SAVE") # <<>>
    /\ ~HasEv(saves[i].tr, "PRE_SAVE") /\ ~HasEv(saves[i].tr, "POST_SAVE")
    /\ ~HasEv(saves[i].tr, "refresh")

\* The part of C21 the code keeps: within one render nothing is removed or
\* deduplicated, and a save calls the listeners of the array it read, once per
\* entry and in order.
SaveCallsItsRendersListeners ==
  [][\A i \in DOMAIN saves :
       IsSaveStep(i) /\ saves'[i].pc = "done" =>
         /\ Who(CallsOf(saves'[i].tr, "PRE_SAVE")) = CallbacksOf(OfEvent(saves'[i].els, "PRE_SAVE"))
         /\ Who(CallsOf(saves'[i].tr, "POST_SAVE")) = CallbacksOf(OfEvent(saves'[i].els, "POST_SAVE"))]_vars

\* ---- saveSilent (C22)
SilentStep(i) == IsSaveStep(i) /\ saves'[i].pc \in {"silent", "returned"}
Untouched ==
  /\ state' = state
  /\ Phase(state') = Phase(state)
  /\ state'.data = state.data
  /\ state'.dirtyFields = state.dirtyFields
  /\ state'.validationMessages = state.validationMessages
  /\ UNCHANGED <<snapshotQueue, assigns, loads, eventListeners, childDataTables, requiredFields>>

\* C22: saveSilent(parameters) issues exactly one persistence call, a create when
\* the container holds no snapshot and an update otherwise, with the current edit
\* buffer and the given parameters, and does nothing else: no validator pass, no
\* pre-save or post-save hook or listener, no change of the phase, the edit
\* buffer, the dirty set or the validation messages, and no view refresh.
SaveSilentOnlyPersists ==
  [][\A i \in DOMAIN saves :
       SilentStep(i) =>
         LET t == saves'[i].tr
         IN /\ Untouched
            /\ saves'[i].pc = "silent" =>
                 /\ Len(t) = 1
                 /\ t[1].ev = "persist"
                 /\ t[1].who = (IF state.snapshot = UndefinedObj THEN "create" ELSE "update")
                 /\ t[1].op = state.metadata.tableName
                 /\ t[1].data = state.data
                 /\ t[1].params = saves'[i].parameters
                 /\ saves'[i].parameters \in SilentParameters
            /\ saves'[i].pc = "returned" =>
                 /\ Len(t) = 2
                 /\ t[1] = saves[i].tr[1]
                 /\ t[2].ev = "response"
                 /\ Len(CallsOf(t, "persist")) = 1
                 /\ \A k \in 1..Len(t) :
                      t[k].ev \notin {"validate", "hook", "PRE_SAVE", "POST_SAVE", "refresh",
                                      "dispatch"}]_vars

\* a silent update of an edited record whose required field is empty has
\* returned, on a container with hooks, a listener and a view in place: the one
\* request carried the buffer and the parameters, and nothing else happened
SilentUpdateSeen ==
  \E i \in DOMAIN saves :
    /\ saves[i].pc = "returned"
    /\ Len(saves[i].tr) = 2
    /\ saves[i].tr[1] = Ev("persist", "update", TableName, Undefined, state.data,
                          [k \in {"silent"} |-> Str("yes")])
    /\ saves[i].tr[2].op = "succeeded"
    /\ state.snapshot = SnapA
    /\ state.data["Name"] = Str("")
    /\ isDirty(state, Str("Name"))
    /\ Phase(state) = "READY"
    /\ props.onPreSave /\ props.onPostSave
    /\ eventListeners # <<>> /\ childDataTables # <<>>

\* ---- concurrent saves (C23)
PersistOf(s) == s.tr[Where(s.tr, "persist")]

\* a save invoked while another is suspended on its persistence call goes on as
\* if it were alone: validation of the current state decides, and when it passes
\* the save dispatches SET_IS_LOADING and issues its own persistence call
SecondSaveProceeds(i) ==
  LET s == saves'[i]
  IN IF ValidationMessagesOf(state, requiredFields) # <<>> THEN s.pc = "invalid"
     ELSE /\ s.pc = "persist"
          /\ Has(s.tr, "dispatch", "SET_IS_LOADING")
          /\ Len(CallsOf(s.tr, "persist")) = 1
          /\ PersistOf(s).who = (IF state.snapshot = UndefinedObj THEN "create" ELSE "update")
          /\ PersistOf(s).data = Spread(EmptyObj, state.data)

\* the post-save notifications of a save that ends
NotifiesAll(i) ==
  Who(PostNotificationsOf(saves'[i].tr)) =
    <<"onPostSave">> \o (IF saves'[i].hooks.postSaveEvent THEN <<"postSaveEvent">> ELSE <<>>)

\* C23: nothing rejects a save() invoked while an earlier save is suspended on
\* its persistence call: it passes validation and reaches its own persistence
\* call, so that two create (or update) calls for the same edit buffer are
\* issued, and the post-save notifications of both saves fire.
ConcurrentSaveIsNotRejected ==
  [][\A i \in DOMAIN saves :
       /\ Invokes(i) /\ Persisting # {} => SecondSaveProceeds(i)
       /\ IsSaveStep(i) /\ saves'[i].pc = "done" => NotifiesAll(i)]_vars

\* two saves have ended, the second invoked while the first was suspended on its
\* persistence call: both issued a create with the same payload {Name: "W"},
\* both calls succeeded, and both notified onPostSave and postSaveEvent
TwoCreatesForOneBuffer ==
  /\ saves[1].pc = "done" /\ saves[2].pc = "done"
  /\ saves[2].others = {1}
  /\ \A i \in {1, 2} : PersistOf(saves[i]).op = TableName
  /\ PersistOf(saves[1]).who = "create" /\ PersistOf(saves[2]).who = "create"
  /\ PersistOf(saves[1]).data = PersistOf(saves[2]).data
  /\ Get(PersistOf(saves[1]).data, "Name") = Str("W")
  /\ \A i \in {1, 2} : saves[i].tr[Where(saves[i].tr, "response")].op = "succeeded"
  /\ Who(PostNotificationsOf(saves[1].tr)) = <<"onPostSave", "postSaveEvent">>
  /\ Who(PostNotificationsOf(saves[2].tr)) = <<"onPostSave", "postSaveEvent">>

\* ---- the phase after a save (C24)
Submitting == Phase(state) = "SUBMITTING"

\* The part of C24 the code keeps: a save whose persistence call was issued
\* ends, and the container is READY again.
PersistLeadsToReady ==
  (\E i \in DOMAIN saves : saves[i].pc = "persist") ~> (Phase(state) = "READY")

\* C24: when every hook, listener and persistence call returns, a save that set
\* the phase to SUBMITTING is eventually followed by the phase READY, after
\* completion and after a cancellation by props.onPreSave, a PRE_SAVE listener
\* or preSaveEvent alike, with no further operation invoked.
SubmittingLeadsToReady == Submitting ~> (Phase(state) = "READY")

\* no save and no load is running or waiting to resume, and the phase is the one
\* a cancelled save left
RestsCancelled ==
  /\ Phase(state) = "SUBMIT_CANCELLED"
  /\ \E i \in DOMAIN saves : saves[i].pc = "cancelled"
  /\ \A i \in DOMAIN saves : ~InFlight(saves[i])
  /\ \A i \in DOMAIN loads : ~InFlight(loads[i])

\* ---- the payload of a save (C25)
\* the buffer a save was invoked on, as the payload {...data} of that moment
BufferAtInvocation(s) == Spread(EmptyObj, s.cstate.data)

\* C25: the payload of a save's persistence call equals the edit buffer as it
\* was when save was invoked: the buffer a save in flight holds on to is the
\* container's buffer of the invocation and never changes while the save is
\* suspended, whatever setField, load or snapshot assignment runs meanwhile, and
\* the persistence call carries exactly its fields.
PayloadIsBufferAtInvocation ==
  [][\A i \in DOMAIN saves :
       /\ Invokes(i) /\ InFlight(saves'[i]) => saves'[i].cstate.data = state.data
       /\ InFlight(saves[i]) /\ InFlight(saves'[i]) =>
            saves'[i].cstate.data = saves[i].cstate.data
       /\ IssuesPersist(i) => PersistCall(i).data = BufferAtInvocation(saves'[i])]_vars

\* a save suspended in a hook while the buffer was replaced by a snapshot and
\* edited persists the buffer of its invocation, not the container's
PersistsBufferOfInvocation ==
  \E i \in DOMAIN saves :
    /\ saves[i].pc = "persist"
    /\ CallsOf(saves[i].tr, "hook") # <<>>
    /\ PersistOf(saves[i]).data = BufferAtInvocation(saves[i])
    /\ IdField \notin DOMAIN PersistOf(saves[i]).data
    /\ Get(PersistOf(saves[i]).data, "Name") # Str("W")
    /\ Get(state.data, IdField) = SnapA[IdField]
    /\ Get(state.data, "Name") = Str("W")

\* ---- the operation kind handed to consumers (C26)
\* the persistence call a save invoked in the current state would issue
SaveWouldIssue == PersistKind([IdleSave EXCEPT !.cstate = state])

\* C26: in every state in which save can be invoked, the operation kind handed
\* to consumers agrees with what a save invoked in that state would do: it is
\* CREATE exactly when the persistence call would be a create and UPDATE exactly
\* when it would be an update, also when the caller supplied a snapshot that is
\* not yet in the container state and when the container's snapshot is null.
OperationAgreesWithSave ==
  Mounted =>
    /\ operation(props, state) = "CREATE" <=> SaveWouldIssue = "create"
    /\ operation(props, state) = "UPDATE" <=> SaveWouldIssue = "update"

\* a save invoked on a loaded container whose snapshot is null issued an update
\* while consumers were told CREATE
UpdateIssuedUnderCreate ==
  \E i \in DOMAIN saves :
    /\ saves[i].pc = "persist"
    /\ saves[i].cstate.snapshot = NullObj
    /\ saves[i].cstate.metadata.defined
    /\ PersistOf(saves[i]).who = "update"
    /\ IdField \notin DOMAIN PersistOf(saves[i]).data
    /\ operation(props, saves[i].cstate) = "CREATE"
    /\ operation(props, state) = "CREATE"

\* a save invoked before the supplied snapshot reached the container state
\* issued a create while consumers were told UPDATE
CreateIssuedUnderUpdate ==
  \E i \in DOMAIN saves :
    /\ saves[i].pc = "persist"
    /\ saves[i].cstate.snapshot = UndefinedObj
    /\ props.snapshot = SnapA
    /\ PersistOf(saves[i]).who = "create"
    /\ operation(props, saves[i].cstate) = "UPDATE"

====
